---- MODULE Spec2Model ----
(***************************************************************************)
(* QInvest risk-score API (src/src/main.py): the risk normaliser, the      *)
(* score aggregator and the rate pricer, the three HTTP handlers that      *)
(* call them, the two handlers of the mocked Qi Tech provider and the      *)
(* demonstration endpoint; and the statistical model beside it             *)
(* (src/models/risk_score_model.py).                                       *)
(*                                                                         *)
(* Five specifications share the definitions:                              *)
(*   Spec            one well-formed request to a scoring endpoint         *)
(*   SpecApi         one request to any of the five POST endpoints, with   *)
(*                   malformed bodies, integers beyond the doubles and     *)
(*                   identifiers of every length, or to GET /qi-tech/demo  *)
(*   SpecSession     several requests answered one after another           *)
(*   SpecConcurrent  several invocations of the two functions at once,     *)
(*                   interleaved block by block                            *)
(*   SpecPredictor   calls of train, predict, save_model and load_model    *)
(*                   on one RiskScorePredictor, in any order               *)
(*                                                                         *)
(* Arithmetic.  The program computes in IEEE doubles; the model computes   *)
(* the same expressions exactly, in fixed point:                           *)
(*   idade_empresa            in 1/AgeUnit years                           *)
(*   money amounts, scores    whole units                                  *)
(*   risco_final (unrounded)  in 1/PointUnit score points                  *)
(*   score (returned)         in 1/ScoreUnit score points                  *)
(*   premia, taxa_final_anual in 1/RateUnit                                *)
(*   taxa_juros_anual         in 1/RateOutUnit                             *)
(* A quotient a/b is kept as the pair (a, b) and compared with a decimal   *)
(* threshold by cross-multiplication.  On the inputs explored the exact    *)
(* values and the doubles agree except in one place: round(x, n) of a      *)
(* value that lies exactly halfway between two n-digit decimals.  There    *)
(* Python rounds the double nearest to x, which lies on either side of the *)
(* tie; float_tie_up holds the side, fixed for a run and unknown.          *)
(***************************************************************************)
EXTENDS Integers, FiniteSets, Sequences, TLC

VARIABLES request, response, risk_calls, rate_calls, float_tie_up,
          qi_tech_calls, random_state, history, invocations, frames,
          predictor, trained_models, returned

vars == <<request, response, risk_calls, rate_calls, float_tie_up,
          qi_tech_calls, random_state, history, invocations, frames,
          predictor, trained_models, returned>>

\* the statistical model of src/models/risk_score_model.py, which the API
\* never imports: a RiskScorePredictor object, the files of its directory
\* and what its last call returned or raised
learned == <<predictor, trained_models, returned>>

\* no RiskScorePredictor has been constructed
NoPredictor ==
    /\ predictor = <<>>
    /\ trained_models = <<>>
    /\ returned = <<>>

\* what the three scoring handlers neither read nor write: the calls to the
\* Qi Tech provider, the state of the module random, the exchanges a
\* session has completed, and the direct invocations of the two functions
\* with the frames of their local variables, and the statistical model
elsewhere == <<qi_tech_calls, random_state, history, invocations, frames,
               learned>>

-----------------------------------------------------------------------------
(* Units of the fixed-point representation *)

AgeUnit == 10
PointUnit == 1000
ScoreUnit == 100
RateUnit == 10000000
RateOutUnit == 10000

-----------------------------------------------------------------------------
(* Bounds of the explored inputs *)

MaxBureau == 8
MaxEstresse == 11
MaxPrazo == 19

-----------------------------------------------------------------------------
(* Python arithmetic *)

\* a / b : the quotient, or ZeroDivisionError when b = 0
Div(a, b) == [num |-> a, den |-> b, raised |-> b = 0]

\* q > tn/td and q < tn/td for a quotient q with a non-zero denominator
GT(q, tn, td) ==
    IF q.den > 0 THEN q.num * td > tn * q.den ELSE q.num * td < tn * q.den

LT(q, tn, td) ==
    IF q.den > 0 THEN q.num * td < tn * q.den ELSE q.num * td > tn * q.den

\* round(x, n): x in units of 1/(k * 10^n), result in units of 1/10^n;
\* tie_up is the side of an exact tie on which the double lies
round(x, k, tie_up) ==
    LET q == x \div k
        r == x % k
    IN  IF 2 * r < k THEN q
        ELSE IF 2 * r > k THEN q + 1
        ELSE IF tie_up THEN q + 1 ELSE q

max(a, b) == IF a >= b THEN a ELSE b

min(a, b) == IF a <= b THEN a ELSE b

\* n * x for an int n and a float x: Python converts n to a double first
\* and raises OverflowError ("int too large to convert to float") when n
\* is 2^1024 or more in magnitude.  The integers of the model end below
\* 2^31, so FloatRange stands for 2^1024, and an integer of the model at or
\* beyond it stands for an integer that no double holds.
FloatRange == 2^30

OverflowError(n) == n >= FloatRange \/ n <= -FloatRange

\* the outcome of one guarded ratio block of the normaliser
Ratio(q, risco) == [risco |-> risco, divided_by |-> {q.den}, raised |-> q.raised]

NoRatio(risco) == [risco |-> risco, divided_by |-> {}, raised |-> FALSE]

-----------------------------------------------------------------------------
(* calculate_risk_score, step 1: normalisation of the indicators *)

risco_idade(idade_empresa) ==
    IF idade_empresa < 2 * AgeUnit THEN 400
    ELSE IF idade_empresa < 5 * AgeUnit THEN 600
    ELSE 1000

risco_cpf(cpf_score) ==
    IF cpf_score < 400 THEN 100
    ELSE IF cpf_score < 700 THEN 500
    ELSE IF cpf_score < 900 THEN 700
    ELSE 1000

\* a guard that lets a zero denominator through
risco_endividamento_unguarded(divida_total, faturamento_anual) ==
    IF faturamento_anual >= 0
    THEN LET indice_endividamento == Div(divida_total, faturamento_anual)
         IN  Ratio(indice_endividamento,
                   IF GT(indice_endividamento, 10, 10) THEN 100
                   ELSE IF GT(indice_endividamento, 6, 10) THEN 300
                   ELSE IF GT(indice_endividamento, 3, 10) THEN 700
                   ELSE 1000)
    ELSE NoRatio(0)

\* the two worst leverage buckets exchanged
risco_endividamento_swapped(divida_total, faturamento_anual) ==
    IF faturamento_anual > 0
    THEN LET indice_endividamento == Div(divida_total, faturamento_anual)
         IN  Ratio(indice_endividamento,
                   IF GT(indice_endividamento, 10, 10) THEN 300
                   ELSE IF GT(indice_endividamento, 6, 10) THEN 100
                   ELSE IF GT(indice_endividamento, 3, 10) THEN 700
                   ELSE 1000)
    ELSE NoRatio(0)

\* an undefined leverage ratio valued as the best bucket
risco_endividamento_undefined_best(divida_total, faturamento_anual) ==
    IF faturamento_anual > 0
    THEN LET indice_endividamento == Div(divida_total, faturamento_anual)
         IN  Ratio(indice_endividamento,
                   IF GT(indice_endividamento, 10, 10) THEN 100
                   ELSE IF GT(indice_endividamento, 6, 10) THEN 300
                   ELSE IF GT(indice_endividamento, 3, 10) THEN 700
                   ELSE 1000)
    ELSE NoRatio(1000)

risco_endividamento(divida_total, faturamento_anual) ==
    IF faturamento_anual > 0
    THEN LET indice_endividamento == Div(divida_total, faturamento_anual)
         IN  Ratio(indice_endividamento,
                   IF GT(indice_endividamento, 10, 10) THEN 100
                   ELSE IF GT(indice_endividamento, 6, 10) THEN 300
                   ELSE IF GT(indice_endividamento, 3, 10) THEN 700
                   ELSE 1000)
    ELSE NoRatio(0)

\* a liquidity guard that lets a zero denominator through
risco_liquidez_unguarded(saldo_medio_diario, faturamento_medio_mensal) ==
    IF faturamento_medio_mensal >= 0
    THEN LET indice_liquidez == Div(saldo_medio_diario, faturamento_medio_mensal)
         IN  Ratio(indice_liquidez,
                   IF LT(indice_liquidez, 1, 10) THEN 100
                   ELSE IF LT(indice_liquidez, 4, 10) THEN 500
                   ELSE 1000)
    ELSE NoRatio(0)

\* non-strict comparisons in the liquidity ladder
risco_liquidez_nonstrict(saldo_medio_diario, faturamento_medio_mensal) ==
    IF faturamento_medio_mensal > 0
    THEN LET indice_liquidez == Div(saldo_medio_diario, faturamento_medio_mensal)
         IN  Ratio(indice_liquidez,
                   IF ~GT(indice_liquidez, 1, 10) THEN 100
                   ELSE IF ~GT(indice_liquidez, 4, 10) THEN 500
                   ELSE 1000)
    ELSE NoRatio(0)

risco_liquidez(saldo_medio_diario, faturamento_medio_mensal) ==
    IF faturamento_medio_mensal > 0
    THEN LET indice_liquidez == Div(saldo_medio_diario, faturamento_medio_mensal)
         IN  Ratio(indice_liquidez,
                   IF LT(indice_liquidez, 1, 10) THEN 100
                   ELSE IF LT(indice_liquidez, 4, 10) THEN 500
                   ELSE 1000)
    ELSE NoRatio(0)

\* the ladder with non-strict comparisons
risco_estresse_nonstrict(estresse_caixa_dias) ==
    IF estresse_caixa_dias >= 10 THEN 0
    ELSE IF estresse_caixa_dias >= 5 THEN 300
    ELSE IF estresse_caixa_dias >= 0 THEN 700
    ELSE 1000

risco_estresse(estresse_caixa_dias) ==
    IF estresse_caixa_dias > 10 THEN 0
    ELSE IF estresse_caixa_dias > 5 THEN 300
    ELSE IF estresse_caixa_dias > 0 THEN 700
    ELSE 1000

\* the concentration ladder without its 900 tier
risco_concentracao_no900(valor_maior_cliente, faturamento_total_periodo) ==
    IF faturamento_total_periodo > 0
    THEN LET indice_concentracao == Div(valor_maior_cliente, faturamento_total_periodo)
         IN  Ratio(indice_concentracao,
                   IF GT(indice_concentracao, 6, 10) THEN 100
                   ELSE IF GT(indice_concentracao, 2, 10) THEN 500
                   ELSE 1000)
    ELSE NoRatio(0)

\* the concentration ladder with non-strict comparisons
risco_concentracao_nonstrict(valor_maior_cliente, faturamento_total_periodo) ==
    IF faturamento_total_periodo > 0
    THEN LET indice_concentracao == Div(valor_maior_cliente, faturamento_total_periodo)
         IN  Ratio(indice_concentracao,
                   IF ~LT(indice_concentracao, 6, 10) THEN 100
                   ELSE IF ~LT(indice_concentracao, 3, 10) THEN 500
                   ELSE IF ~LT(indice_concentracao, 2, 10) THEN 900
                   ELSE 1000)
    ELSE NoRatio(0)

risco_concentracao(valor_maior_cliente, faturamento_total_periodo) ==
    IF faturamento_total_periodo > 0
    THEN LET indice_concentracao == Div(valor_maior_cliente, faturamento_total_periodo)
         IN  Ratio(indice_concentracao,
                   IF GT(indice_concentracao, 6, 10) THEN 100
                   ELSE IF GT(indice_concentracao, 3, 10) THEN 500
                   ELSE IF GT(indice_concentracao, 2, 10) THEN 900
                   ELSE 1000)
    ELSE NoRatio(0)

-----------------------------------------------------------------------------
(* calculate_risk_score, steps 2 and 3: weights, clamp, classification *)

\* weights that give the share of the age and of the personal credit score
\* to the bureau score
pesos_without_person ==
    [idade |-> 0, cpf_score |-> 0, endividamento |-> 150,
     liquidez |-> 100, estresse_caixa |-> 100, concentracao |-> 50,
     score_biro |-> 600]

\* a bureau weight of 0.501
pesos_fine_bureau ==
    [idade |-> 50, cpf_score |-> 50, endividamento |-> 150,
     liquidez |-> 100, estresse_caixa |-> 100, concentracao |-> 50,
     score_biro |-> 501]

\* weights that sum to 1.10
pesos_heavy_bureau ==
    [idade |-> 50, cpf_score |-> 50, endividamento |-> 150,
     liquidez |-> 100, estresse_caixa |-> 100, concentracao |-> 50,
     score_biro |-> 600]

\* the weights, in units of 1/PointUnit
pesos ==
    [idade |-> 50, cpf_score |-> 50, endividamento |-> 150,
     liquidez |-> 100, estresse_caixa |-> 100, concentracao |-> 50,
     score_biro |-> 500]

\* the weighted sum, in 1/PointUnit score points
risco_final(end, liq, est, con, ida, cpf, cnpj_score_api) ==
    end * pesos.endividamento + liq * pesos.liquidez +
    est * pesos.estresse_caixa + con * pesos.concentracao +
    ida * pesos.idade + cpf * pesos.cpf_score +
    cnpj_score_api * pesos.score_biro

\* a clamp that lost its upper limit
clamp_no_upper(x) == max(0, x)

clamp(x) == max(0, min(1000 * PointUnit, x))

\* a ladder with non-strict comparisons
classificacao_nonstrict(x) ==
    IF x >= 800 * PointUnit THEN "A"
    ELSE IF x >= 600 * PointUnit THEN "B"
    ELSE IF x >= 400 * PointUnit THEN "C"
    ELSE IF x >= 200 * PointUnit THEN "D"
    ELSE "automatically_reproved"

classificacao(x) ==
    IF x > 800 * PointUnit THEN "A"
    ELSE IF x > 600 * PointUnit THEN "B"
    ELSE IF x > 400 * PointUnit THEN "C"
    ELSE IF x > 200 * PointUnit THEN "D"
    ELSE "automatically_reproved"

\* The function's locals at its return statement; when raised is TRUE the
\* function left with an exception (ZeroDivisionError in a ratio,
\* OverflowError in the weighted sum) and returned nothing.
calculate_risk_score(d, tie_up) ==
    LET ida == risco_idade(d.idade_empresa)
        cpf == risco_cpf(d.cpf_score)
        end == risco_endividamento(d.divida_total, d.faturamento_anual)
        liq == risco_liquidez(d.saldo_medio_diario, d.faturamento_medio_mensal)
        est == risco_estresse(d.estresse_caixa_dias)
        con == risco_concentracao(d.valor_maior_cliente, d.faturamento_total_periodo)
        soma == IF OverflowError(d.cnpj_score_api) THEN 0
                ELSE risco_final(end.risco, liq.risco, est, con.risco, ida, cpf,
                                 d.cnpj_score_api)
        final == clamp(soma)
    IN  [raised |-> end.raised \/ liq.raised \/ con.raised
                        \/ OverflowError(d.cnpj_score_api),
         divided_by |-> [faturamento_anual |-> end.divided_by # {},
                         faturamento_medio_mensal |-> liq.divided_by # {},
                         faturamento_total_periodo |-> con.divided_by # {}],
         risco_idade |-> ida,
         risco_cpf |-> cpf,
         risco_endividamento |-> end.risco,
         risco_liquidez |-> liq.risco,
         risco_estresse |-> est,
         risco_concentracao |-> con.risco,
         soma |-> soma,
         risco_final |-> final,
         classificacao |-> classificacao(final),
         score |-> round(final, PointUnit \div ScoreUnit, tie_up)]

-----------------------------------------------------------------------------
(* calcular_taxa_juros_anual; risco_final arrives in 1/ScoreUnit points *)

TAXA_BASE == (12 * RateUnit) \div 100

\* a coefficient of 2.5 in place of 0.25
premio_risco_tenfold(risco_final_) == (-(risco_final_ - 1000 * ScoreUnit)) * 250

\* the sign of the complement lost
premio_risco_no_negation(risco_final_) == (risco_final_ - 1000 * ScoreUnit) * 25

\* (-(risco_final - 1000) / 1000) * 0.25, where
\* 0.25 * RateUnit / (1000 * ScoreUnit) = 25
premio_risco(risco_final_) == (-(risco_final_ - 1000 * ScoreUnit)) * 25

\* strict comparisons in the term ladder
premio_prazo_strict(prazo_meses) ==
    IF prazo_meses < 6 THEN 0
    ELSE IF prazo_meses < 12 THEN 200000
    ELSE IF prazo_meses < 18 THEN 400000
    ELSE 600000

premio_prazo(prazo_meses) ==
    IF prazo_meses <= 6 THEN 0
    ELSE IF prazo_meses <= 12 THEN 200000
    ELSE IF prazo_meses <= 18 THEN 400000
    ELSE 600000

\* the two middle amount premia exchanged
premio_valor_swapped(valor_solicitado) ==
    IF valor_solicitado < 50000 THEN 0
    ELSE IF valor_solicitado < 150000 THEN 250000
    ELSE IF valor_solicitado < 300000 THEN 100000
    ELSE 500000

\* the top amount premium a decimal place too large
premio_valor_top_tenfold(valor_solicitado) ==
    IF valor_solicitado < 50000 THEN 0
    ELSE IF valor_solicitado < 150000 THEN 100000
    ELSE IF valor_solicitado < 300000 THEN 250000
    ELSE 5000000

premio_valor(valor_solicitado) ==
    IF valor_solicitado < 50000 THEN 0
    ELSE IF valor_solicitado < 150000 THEN 100000
    ELSE IF valor_solicitado < 300000 THEN 250000
    ELSE 500000

\* The function's locals at its return statement.
calcular_taxa_juros_anual(risco_final_, prazo_meses, valor_solicitado) ==
    LET pr == premio_risco(risco_final_)
        pp == premio_prazo(prazo_meses)
        pv == premio_valor(valor_solicitado)
    IN  [risco_final |-> risco_final_,
         prazo_meses |-> prazo_meses,
         valor_solicitado |-> valor_solicitado,
         premio_risco |-> pr,
         premio_prazo |-> pp,
         premio_valor |-> pv,
         taxa_final_anual |-> TAXA_BASE + (pr + pp + pv)]

-----------------------------------------------------------------------------
(* The requests explored *)

\* TEST_RISK_DATA
Literal ==
    [idade_empresa |-> 35, cpf_score |-> 750,
     divida_total |-> 100000, faturamento_anual |-> 500000,
     saldo_medio_diario |-> 15000, faturamento_medio_mensal |-> 41667,
     estresse_caixa_dias |-> 2,
     valor_maior_cliente |-> 80000, faturamento_total_periodo |-> 300000,
     cnpj_score_api |-> 800]

BureauValues == {125 * k : k \in 0..MaxBureau}

\* one (numerator, denominator) pair per bucket of each ratio, on the
\* thresholds where a bucket has one
EndividamentoPairs ==
    {<<0, 0>>, <<300, 1000>>, <<600, 1000>>, <<1000, 1000>>, <<1001, 1000>>}

LiquidezPairs == {<<0, 0>>, <<99, 1000>>, <<100, 1000>>, <<400, 1000>>}

ConcentracaoPairs ==
    {<<0, 0>>, <<200, 1000>>, <<300, 1000>>, <<600, 1000>>, <<601, 1000>>}

\* every combination of buckets, with every bureau score
GridInputs ==
    {[idade_empresa |-> a, cpf_score |-> c,
      divida_total |-> e[1], faturamento_anual |-> e[2],
      saldo_medio_diario |-> l[1], faturamento_medio_mensal |-> l[2],
      estresse_caixa_dias |-> s,
      valor_maior_cliente |-> k[1], faturamento_total_periodo |-> k[2],
      cnpj_score_api |-> b] :
        a \in {19, 20, 50}, c \in {399, 400, 700, 900},
        e \in EndividamentoPairs, l \in LiquidezPairs,
        s \in {0, 5, 10, 11}, k \in ConcentracaoPairs, b \in BureauValues}

\* the literal scenario with one indicator varied around its thresholds,
\* negative and zero values included
SliceInputs ==
    {[Literal EXCEPT !.idade_empresa = v] :
        v \in {-10, 0, 19, 20, 21, 35, 49, 50, 51, 300}}
    \cup {[Literal EXCEPT !.cpf_score = v] :
        v \in {-1, 0, 399, 400, 401, 699, 700, 701, 899, 900, 901, 1000}}
    \cup {[Literal EXCEPT !.divida_total = v, !.faturamento_anual = w] :
        v \in {-1000, 0, 149999, 150000, 150001, 299999, 300000, 300001,
               499999, 500000, 500001, 600000},
        w \in {-500000, 0, 500000}}
    \cup {[Literal EXCEPT !.saldo_medio_diario = v, !.faturamento_medio_mensal = w] :
        v \in {-1000, 0, 3999, 4000, 4001, 15000, 15999, 16000, 16001},
        w \in {-40000, 0, 40000, 41667}}
    \cup {[Literal EXCEPT !.estresse_caixa_dias = v] : v \in -1..MaxEstresse}
    \cup {[Literal EXCEPT !.valor_maior_cliente = v, !.faturamento_total_periodo = w] :
        v \in {-1000, 0, 59999, 60000, 60001, 80000, 89999, 90000, 90001,
               179999, 180000, 180001},
        w \in {-300000, 0, 300000}}
    \cup {[Literal EXCEPT !.cnpj_score_api = v] :
        v \in {-3000, -1, 0, 1, 799, 801, 999, 1000, 1001, 3000}}

RiskInputs == GridInputs \cup SliceInputs

\* scores in 1/ScoreUnit points: the declared domain 0..1000 and beyond it
RiscoFinalValues ==
    {-300000, -1, 0, 1, 20000, 30000, 40000, 60000, 65000, 65050, 80000, 90000,
     99980, 100000, 100001, 200000}

PrazoValues == 1..MaxPrazo

ValorValues ==
    {0, 25000, 49999, 50000, 100000, 149999, 150000, 299999, 300000, 400000}

NoRisk == [k \in DOMAIN Literal |-> 0]

RiskRequests ==
    {[endpoint |-> "/calculate-risk-score", data |-> d,
      risco_final |-> 0, prazo_meses |-> 0, valor_solicitado |-> 0,
      unparsable |-> {}] :
        d \in RiskInputs}

InterestRequests ==
    {[endpoint |-> "/calculate-interest-rate", data |-> NoRisk,
      risco_final |-> r, prazo_meses |-> p, valor_solicitado |-> v,
      unparsable |-> {}] :
        r \in RiscoFinalValues, p \in PrazoValues, v \in ValorValues}

FullRequests ==
    {[endpoint |-> "/calculate-full-score", data |-> d,
      risco_final |-> 0, prazo_meses |-> p, valor_solicitado |-> v,
      unparsable |-> {}] :
        d \in SliceInputs, p \in {6, 12, 18, MaxPrazo},
        v \in {49999, 50000, 150000, 300000}}

Requests == RiskRequests \cup InterestRequests \cup FullRequests

-----------------------------------------------------------------------------
(* The request bodies the handlers declare *)

\* the fields of the three pydantic models; every one is required
RiskScoreInput ==
    {"idade_empresa", "cpf_score", "divida_total", "faturamento_anual",
     "saldo_medio_diario", "faturamento_medio_mensal", "estresse_caixa_dias",
     "valor_maior_cliente", "faturamento_total_periodo", "cnpj_score_api"}

InterestRateInput == {"risco_final", "prazo_meses", "valor_solicitado"}

FullScoreInput == RiskScoreInput \cup {"prazo_meses", "valor_solicitado"}

\* the fields present in the body of a request
body(req) == DOMAIN req.data \cup (DOMAIN req \cap InterestRateInput)

\* a validation that checks the presence of the fields and not their types
validates_untyped(model, req) == model \subseteq body(req)

\* the body has every field of the model, with a value that converts to
\* the declared type (req.unparsable holds the fields whose value does
\* not); fields the model does not declare are ignored
validates(model, req) ==
    /\ model \subseteq body(req)
    /\ req.unparsable \cap model = {}

-----------------------------------------------------------------------------
(* The handlers *)

Pending == [status |-> 0, score |-> 0, classificacao |-> "", taxa_juros_anual |-> 0]

\* HTTPException(status_code=400), raised from the handlers' except branch
Erro400 == [status |-> 400, score |-> 0, classificacao |-> "", taxa_juros_anual |-> 0]

Init ==
    /\ request \in Requests
    /\ response = Pending
    /\ risk_calls = <<>>
    /\ rate_calls = <<>>
    /\ float_tie_up \in BOOLEAN
    /\ qi_tech_calls = <<>>
    /\ random_state = 0
    /\ history = <<>>
    /\ invocations = <<>>
    /\ frames = <<>>
    /\ NoPredictor

calculate_risk_score_endpoint ==
    /\ request.endpoint = "/calculate-risk-score"
    /\ response = Pending
    /\ validates(RiskScoreInput, request)
    /\ LET r == calculate_risk_score(request.data, float_tie_up)
       IN  /\ risk_calls' = Append(risk_calls, r)
           /\ response' =
                IF r.raised THEN Erro400
                ELSE [status |-> 200, score |-> r.score,
                      classificacao |-> r.classificacao, taxa_juros_anual |-> 0]
    /\ UNCHANGED <<request, rate_calls, float_tie_up, elsewhere>>

calculate_interest_rate_endpoint ==
    /\ request.endpoint = "/calculate-interest-rate"
    /\ response = Pending
    /\ validates(InterestRateInput, request)
    /\ LET t == calcular_taxa_juros_anual(request.risco_final, request.prazo_meses,
                                          request.valor_solicitado)
       IN  /\ rate_calls' = Append(rate_calls, t)
           /\ response' =
                [status |-> 200, score |-> 0, classificacao |-> "",
                 taxa_juros_anual |-> round(t.taxa_final_anual,
                          RateUnit \div RateOutUnit, float_tie_up)]
    /\ UNCHANGED <<request, risk_calls, float_tie_up, elsewhere>>

\* a handler that asks the provider for the bureau score of the company
\* instead of taking it from the request
calculate_full_score_endpoint_provider_bureau ==
    /\ request.endpoint = "/calculate-full-score"
    /\ response = Pending
    /\ validates(FullScoreInput, request)
    /\ \E q \in 300..900 :
         LET r == calculate_risk_score([request.data EXCEPT !.cnpj_score_api = q],
                                       float_tie_up)
             t == calcular_taxa_juros_anual(r.score, request.prazo_meses,
                                            request.valor_solicitado)
         IN  /\ risk_calls' = Append(risk_calls, r)
             /\ rate_calls' = IF r.raised THEN rate_calls ELSE Append(rate_calls, t)
             /\ response' =
                  IF r.raised THEN Erro400
                  ELSE [status |-> 200, score |-> r.score,
                        classificacao |-> r.classificacao,
                        taxa_juros_anual |-> round(t.taxa_final_anual,
                            RateUnit \div RateOutUnit, float_tie_up)]
    /\ random_state' = random_state + 1
    /\ UNCHANGED <<request, float_tie_up, qi_tech_calls, history, invocations,
                   frames, learned>>

\* a handler that prices a risco_final taken from the request body instead
\* of the score it has just computed
calculate_full_score_endpoint_body_score ==
    /\ request.endpoint = "/calculate-full-score"
    /\ response = Pending
    /\ validates(FullScoreInput, request)
    /\ LET r == calculate_risk_score(request.data, float_tie_up)
           t == calcular_taxa_juros_anual(request.risco_final, request.prazo_meses,
                                          request.valor_solicitado)
       IN  /\ risk_calls' = Append(risk_calls, r)
           /\ rate_calls' = IF r.raised THEN rate_calls ELSE Append(rate_calls, t)
           /\ response' =
                IF r.raised THEN Erro400
                ELSE [status |-> 200, score |-> r.score,
                      classificacao |-> r.classificacao,
                      taxa_juros_anual |-> round(t.taxa_final_anual,
                          RateUnit \div RateOutUnit, float_tie_up)]
    /\ UNCHANGED <<request, float_tie_up, elsewhere>>

calculate_full_score_endpoint ==
    /\ request.endpoint = "/calculate-full-score"
    /\ response = Pending
    /\ validates(FullScoreInput, request)
    /\ LET r == calculate_risk_score(request.data, float_tie_up)
           t == calcular_taxa_juros_anual(r.score, request.prazo_meses,
                                          request.valor_solicitado)
       IN  /\ risk_calls' = Append(risk_calls, r)
           /\ rate_calls' = IF r.raised THEN rate_calls ELSE Append(rate_calls, t)
           /\ response' =
                IF r.raised THEN Erro400
                ELSE [status |-> 200, score |-> r.score,
                      classificacao |-> r.classificacao,
                      taxa_juros_anual |-> round(t.taxa_final_anual,
                          RateUnit \div RateOutUnit, float_tie_up)]
    /\ UNCHANGED <<request, float_tie_up, elsewhere>>

Next ==
    \/ calculate_risk_score_endpoint
    \/ calculate_interest_rate_endpoint
    \/ calculate_full_score_endpoint

Spec == Init /\ [][Next]_vars

-----------------------------------------------------------------------------
(* The Qi Tech provider, mocked.  An identifier is the sequence of its    *)
(* characters.  Of QiTechScoreResponse the model keeps score and          *)
(* faixa_score; the probability, the analysis and the timestamps are left *)
(* out.                                                                    *)

empresas_mock ==
    (<<"1", "2", "3", "4", "5", "6", "7", "8", "0", "0", "0", "1", "2", "3">>
        :> [score |-> 750, faixa |-> "B"]) @@
    (<<"9", "8", "7", "6", "5", "4", "3", "2", "0", "0", "0", "1", "9", "8">>
        :> [score |-> 450, faixa |-> "D"])

pessoas_mock ==
    (<<"1", "2", "3", "4", "5", "6", "7", "8", "9", "0", "1">>
        :> [score |-> 820, faixa |-> "A"]) @@
    (<<"9", "8", "7", "6", "5", "4", "3", "2", "1", "0", "9">>
        :> [score |-> 380, faixa |-> "D"])

\* The results the function can return: the table's entry for a known
\* identifier, otherwise any outcome of the calls to random; draws is the
\* number of those calls.
consultar_score_qi_tech_empresa(cnpj) ==
    IF cnpj \in DOMAIN empresas_mock
    THEN {[score |-> empresas_mock[cnpj].score,
           faixa_score |-> empresas_mock[cnpj].faixa, draws |-> 0]}
    ELSE {[score |-> s, faixa_score |-> f, draws |-> 6] :
            s \in 300..900, f \in {"A", "B", "C", "D"}}

\* a generator whose scores for unknown identifiers go up to 1050
consultar_score_qi_tech_pessoa_wide(cpf) ==
    IF cpf \in DOMAIN pessoas_mock
    THEN {[score |-> pessoas_mock[cpf].score,
           faixa_score |-> pessoas_mock[cpf].faixa, draws |-> 0]}
    ELSE {[score |-> s, faixa_score |-> f, draws |-> 6] :
            s \in 200..1050, f \in {"A", "B", "C", "D"}}

consultar_score_qi_tech_pessoa(cpf) ==
    IF cpf \in DOMAIN pessoas_mock
    THEN {[score |-> pessoas_mock[cpf].score,
           faixa_score |-> pessoas_mock[cpf].faixa, draws |-> 0]}
    ELSE {[score |-> s, faixa_score |-> f, draws |-> 6] :
            s \in 200..950, f \in {"A", "B", "C", "D"}}

-----------------------------------------------------------------------------
(* The handlers of the provider's endpoints.  Their except branch (500)   *)
(* has no counterpart here: the mocked functions raise nothing.           *)

\* HTTPException(status_code=400, detail=...)
Recusado(detail) == [status |-> 400, detail |-> detail]

\* a handler that turns away the identifiers that are too long only
consultar_score_empresa_qi_tech_longer_only ==
    /\ request.endpoint = "/qi-tech/empresa/score"
    /\ response = Pending
    /\ IF Len(request.cnpj) > 14
       THEN /\ response' = Recusado("CNPJ deve ter 14 dígitos")
            /\ UNCHANGED <<qi_tech_calls, random_state>>
       ELSE \E r \in consultar_score_qi_tech_empresa(request.cnpj) :
              /\ qi_tech_calls' = Append(qi_tech_calls,
                     [function |-> "consultar_score_qi_tech_empresa",
                      argument |-> request.cnpj])
              /\ random_state' = random_state + r.draws
              /\ response' = [status |-> 200, score |-> r.score,
                              faixa_score |-> r.faixa_score]
    /\ UNCHANGED <<request, risk_calls, rate_calls, float_tie_up, history,
                   invocations, frames, learned>>

consultar_score_empresa_qi_tech ==
    /\ request.endpoint = "/qi-tech/empresa/score"
    /\ response = Pending
    /\ IF request.cnpj = <<>> \/ Len(request.cnpj) # 14
       THEN /\ response' = Recusado("CNPJ deve ter 14 dígitos")
            /\ UNCHANGED <<qi_tech_calls, random_state>>
       ELSE \E r \in consultar_score_qi_tech_empresa(request.cnpj) :
              /\ qi_tech_calls' = Append(qi_tech_calls,
                     [function |-> "consultar_score_qi_tech_empresa",
                      argument |-> request.cnpj])
              /\ random_state' = random_state + r.draws
              /\ response' = [status |-> 200, score |-> r.score,
                              faixa_score |-> r.faixa_score]
    /\ UNCHANGED <<request, risk_calls, rate_calls, float_tie_up, history,
                   invocations, frames, learned>>

consultar_score_pessoa_qi_tech ==
    /\ request.endpoint = "/qi-tech/pessoa/score"
    /\ response = Pending
    /\ IF request.cpf = <<>> \/ Len(request.cpf) # 11
       THEN /\ response' = Recusado("CPF deve ter 11 dígitos")
            /\ UNCHANGED <<qi_tech_calls, random_state>>
       ELSE \E r \in consultar_score_qi_tech_pessoa(request.cpf) :
              /\ qi_tech_calls' = Append(qi_tech_calls,
                     [function |-> "consultar_score_qi_tech_pessoa",
                      argument |-> request.cpf])
              /\ random_state' = random_state + r.draws
              /\ response' = [status |-> 200, score |-> r.score,
                              faixa_score |-> r.faixa_score]
    /\ UNCHANGED <<request, risk_calls, rate_calls, float_tie_up, history,
                   invocations, frames, learned>>

-----------------------------------------------------------------------------
(* Request validation: FastAPI validates the body against the model the   *)
(* handler declares before it calls the handler, and answers 422 itself   *)
(* when the validation fails.                                             *)

\* GET /qi-tech/demo: the example data of the handler
cnpj_exemplo ==
    <<"1", "2", "3", "4", "5", "6", "7", "8", "0", "0", "0", "1", "2", "3">>

dados_internos ==
    [idade_empresa |-> 5 * AgeUnit, cpf_score |-> 750,
     divida_total |-> 150000, faturamento_anual |-> 800000,
     saldo_medio_diario |-> 25000, faturamento_medio_mensal |-> 66667,
     estresse_caixa_dias |-> 3, valor_maior_cliente |-> 120000,
     faturamento_total_periodo |-> 600000, cnpj_score_api |-> 700]

abs(x) == IF x < 0 THEN -x ELSE x

\* the comparison of the handler: score_interno and diferenca in 1/ScoreUnit
\* points, the provider's score in whole points
recomendacao(score_interno, qi_tech_score) ==
    LET diferenca == abs(score_interno - qi_tech_score * ScoreUnit)
    IN  IF diferenca < 50 * ScoreUnit
        THEN "Scores similares - usar média ponderada"
        ELSE IF score_interno > qi_tech_score * ScoreUnit
        THEN "Score interno mais conservador - revisar parâmetros"
        ELSE "Qi Tech mais otimista - validar dados externos"

\* The handler has no try block: an exception of calculate_risk_score is
\* answered 500 by the framework, before the provider is consulted.
demo_qi_tech_integration ==
    /\ request.endpoint = "/qi-tech/demo"
    /\ response = Pending
    /\ LET r == calculate_risk_score(dados_internos, float_tie_up)
       IN  /\ risk_calls' = Append(risk_calls, r)
           /\ IF r.raised
              THEN /\ response' = [status |-> 500]
                   /\ UNCHANGED <<qi_tech_calls, random_state>>
              ELSE \E qi_tech_result \in consultar_score_qi_tech_empresa(cnpj_exemplo) :
                     /\ qi_tech_calls' = Append(qi_tech_calls,
                            [function |-> "consultar_score_qi_tech_empresa",
                             argument |-> cnpj_exemplo])
                     /\ random_state' = random_state + qi_tech_result.draws
                     /\ response' =
                            [status |-> 200,
                             score |-> r.score,
                             classificacao |-> r.classificacao,
                             qi_tech_score |-> qi_tech_result.score,
                             faixa |-> qi_tech_result.faixa_score,
                             diferenca_score |->
                                 abs(r.score - qi_tech_result.score * ScoreUnit),
                             recomendacao |->
                                 recomendacao(r.score, qi_tech_result.score)]
    /\ UNCHANGED <<request, rate_calls, float_tie_up, history, invocations,
                   frames, learned>>

Erro422 == [status |-> 422, score |-> 0, classificacao |-> "", taxa_juros_anual |-> 0]

request_validation_error ==
    /\ response = Pending
    /\ \/ /\ request.endpoint = "/calculate-risk-score"
          /\ ~validates(RiskScoreInput, request)
       \/ /\ request.endpoint = "/calculate-interest-rate"
          /\ ~validates(InterestRateInput, request)
       \/ /\ request.endpoint = "/calculate-full-score"
          /\ ~validates(FullScoreInput, request)
    /\ response' = Erro422
    /\ UNCHANGED <<request, risk_calls, rate_calls, float_tie_up, elsewhere>>

-----------------------------------------------------------------------------
(* The API as a whole: one request to any of the five POST endpoints,     *)
(* well-formed or not                                                      *)

MaxIdLen == 15

\* a POST to one of the scoring endpoints; bad holds the fields of the body
\* whose value does not convert to the declared type
Post(endpoint, d, r, p, v, bad) ==
    [endpoint |-> endpoint, data |-> d, risco_final |-> r,
     prazo_meses |-> p, valor_solicitado |-> v, unparsable |-> bad]

Without(d, field) == [k \in DOMAIN d \ {field} |-> d[k]]

\* bodies with a required field missing, or with a value of the wrong type
MalformedRequests ==
    {Post("/calculate-risk-score", Without(Literal, f), 0, 0, 0, {}) :
        f \in RiskScoreInput}
    \cup {Post("/calculate-risk-score", Literal, 0, 0, 0, {f}) :
        f \in RiskScoreInput}
    \cup {Post("/calculate-risk-score", Without(Literal, f), 0, 0, 0, {g}) :
        f \in {"idade_empresa"}, g \in {"cpf_score"}}
    \cup {Without(Post("/calculate-interest-rate", NoRisk, 65050, 12, 100000, {}), f) :
        f \in InterestRateInput}
    \cup {Post("/calculate-interest-rate", NoRisk, 65050, 12, 100000, {f}) :
        f \in InterestRateInput}
    \cup {Post("/calculate-full-score", Without(Literal, f), 0, 12, 100000, {}) :
        f \in RiskScoreInput}
    \cup {Without(Post("/calculate-full-score", Literal, 0, 12, 100000, {}), f) :
        f \in {"prazo_meses", "valor_solicitado"}}
    \cup {Post("/calculate-full-score", Literal, 0, 12, 100000, {f}) :
        f \in FullScoreInput}

\* bodies that validate although a field the model does not declare is
\* missing or has the wrong type
TolerantRequests ==
    {Post("/calculate-risk-score", Literal, 0, 0, 0, {f}) : f \in InterestRateInput}
    \cup {Without(Post("/calculate-full-score", Literal, 0, 12, 100000, {}),
                  "risco_final")}
    \cup {Post("/calculate-interest-rate", Without(NoRisk, f), 65050, 12, 100000, {f}) :
        f \in RiskScoreInput}

\* integer fields with a value that no double holds
BeyondFloatInputs ==
    {[Literal EXCEPT ![f] = v] :
        f \in {"cnpj_score_api", "cpf_score", "estresse_caixa_dias"},
        v \in {FloatRange, -FloatRange}}

BeyondFloatRequests ==
    {Post("/calculate-risk-score", d, 0, 0, 0, {}) : d \in BeyondFloatInputs}
    \cup {Post("/calculate-full-score", d, 0, 12, 100000, {}) : d \in BeyondFloatInputs}
    \cup {Post("/calculate-interest-rate", NoRisk, 65050, p, 100000, {}) :
        p \in {FloatRange, -FloatRange}}

\* identifiers of every length up to MaxIdLen, among them the four of the
\* mocked tables
Identifiers ==
    {[i \in 1..n |-> "0"] : n \in 0..MaxIdLen}
    \cup {[i \in 1..n |-> "x"] : n \in {11, 14}}
    \cup DOMAIN empresas_mock \cup DOMAIN pessoas_mock

QiTechRequests ==
    {[endpoint |-> "/qi-tech/empresa/score", cnpj |-> id] : id \in Identifiers}
    \cup {[endpoint |-> "/qi-tech/pessoa/score", cpf |-> id] : id \in Identifiers}

ApiRequests ==
    {Post("/calculate-risk-score", d, 0, 0, 0, {}) : d \in SliceInputs}
    \cup {r \in InterestRequests : r.prazo_meses \in {12, MaxPrazo}}
    \cup FullRequests
    \cup MalformedRequests \cup TolerantRequests \cup BeyondFloatRequests
    \cup QiTechRequests
    \cup {[endpoint |-> "/qi-tech/demo"]}

InitApi ==
    /\ request \in ApiRequests
    /\ response = Pending
    /\ risk_calls = <<>>
    /\ rate_calls = <<>>
    /\ float_tie_up \in BOOLEAN
    /\ qi_tech_calls = <<>>
    /\ random_state = 0
    /\ history = <<>>
    /\ invocations = <<>>
    /\ frames = <<>>
    /\ NoPredictor

NextApi ==
    \/ Next
    \/ request_validation_error
    \/ consultar_score_empresa_qi_tech
    \/ consultar_score_pessoa_qi_tech
    \/ demo_qi_tech_integration

SpecApi == InitApi /\ [][NextApi]_vars

-----------------------------------------------------------------------------
(* A session: the application answers one request after another.  history *)
(* is the log of the exchanges completed; of a lookup's answer it keeps   *)
(* the status only.                                                        *)

MaxSession == 3

SessionRequests ==
    {Post("/calculate-full-score", Literal, 0, 18, 150000, {}),
     Post("/calculate-full-score", NoRisk, 0, 6, 49999, {}),
     Post("/calculate-risk-score", Literal, 0, 0, 0, {}),
     [endpoint |-> "/qi-tech/empresa/score", cnpj |-> [i \in 1..14 |-> "0"]],
     [endpoint |-> "/qi-tech/pessoa/score", cpf |-> [i \in 1..11 |-> "0"]]}

InitSession ==
    /\ request \in SessionRequests
    /\ response = Pending
    /\ risk_calls = <<>>
    /\ rate_calls = <<>>
    /\ float_tie_up \in BOOLEAN
    /\ qi_tech_calls = <<>>
    /\ random_state = 0
    /\ history = <<>>
    /\ invocations = <<>>
    /\ frames = <<>>
    /\ NoPredictor

\* the request has been answered and the next one arrives
next_request ==
    /\ response # Pending
    /\ Len(history) + 1 < MaxSession
    /\ request' \in SessionRequests
    /\ response' = Pending
    /\ history' = Append(history,
           [request |-> request,
            response |-> IF "data" \in DOMAIN request THEN response
                         ELSE [status |-> response.status]])
    /\ UNCHANGED <<risk_calls, rate_calls, float_tie_up, qi_tech_calls,
                   random_state, invocations, frames, learned>>

NextSession ==
    \/ calculate_risk_score_endpoint
    \/ calculate_full_score_endpoint
    \/ consultar_score_empresa_qi_tech
    \/ consultar_score_pessoa_qi_tech
    \/ next_request

SpecSession == InitSession /\ [][NextSession]_vars

-----------------------------------------------------------------------------
(* Concurrent callers of the two functions.  Each caller invokes one of   *)
(* them once; an invocation advances block by block of the function's     *)
(* body, and the blocks of different invocations interleave freely.  The  *)
(* local variables of an invocation live in its frame; a local not yet    *)
(* assigned reads 0 here.                                                  *)

MaxCallers == 2

Callers == 1..MaxCallers

Calls ==
    {[function |-> "calculate_risk_score", args |-> d] :
        d \in {Literal, NoRisk, [Literal EXCEPT !.cnpj_score_api = 0],
               [Literal EXCEPT !.estresse_caixa_dias = MaxEstresse],
               [Literal EXCEPT !.cnpj_score_api = FloatRange]}}
    \cup {[function |-> "calcular_taxa_juros_anual",
           args |-> [risco_final |-> r, prazo_meses |-> p, valor_solicitado |-> v]] :
        r \in {65050, 100000}, p \in {6, 18}, v \in {100000}}

NoLocals ==
    [risco_idade |-> 0, risco_cpf |-> 0, risco_endividamento |-> 0,
     risco_liquidez |-> 0, risco_estresse |-> 0, risco_concentracao |-> 0,
     risco_final |-> 0, premio_risco |-> 0, premio_prazo |-> 0,
     premio_valor |-> 0]

\* locals kept in one place for all the invocations, as globals are
frame_of_module(c) == 1

\* the frame that holds the locals of invocation c: its own
frame_of(c) == c

InitConcurrent ==
    /\ request = [endpoint |-> ""]
    /\ response = Pending
    /\ risk_calls = <<>>
    /\ rate_calls = <<>>
    /\ float_tie_up \in BOOLEAN
    /\ qi_tech_calls = <<>>
    /\ random_state = 0
    /\ history = <<>>
    /\ invocations \in [Callers ->
           {[function |-> k.function, args |-> k.args, pc |-> "called",
             result |-> [raised |-> FALSE]] : k \in Calls}]
    /\ frames = [c \in Callers |-> NoLocals]
    /\ NoPredictor

\* calculate_risk_score, block 1: the six sub-scores
normalizacao(c) ==
    /\ invocations[c].function = "calculate_risk_score"
    /\ invocations[c].pc = "called"
    /\ LET d == invocations[c].args
       IN  frames' = [frames EXCEPT ![frame_of(c)] =
             [@ EXCEPT
               !.risco_idade = risco_idade(d.idade_empresa),
               !.risco_cpf = risco_cpf(d.cpf_score),
               !.risco_endividamento =
                   risco_endividamento(d.divida_total, d.faturamento_anual).risco,
               !.risco_liquidez =
                   risco_liquidez(d.saldo_medio_diario,
                                  d.faturamento_medio_mensal).risco,
               !.risco_estresse = risco_estresse(d.estresse_caixa_dias),
               !.risco_concentracao =
                   risco_concentracao(d.valor_maior_cliente,
                                      d.faturamento_total_periodo).risco]]
    /\ invocations' = [invocations EXCEPT ![c].pc = "normalised"]
    /\ UNCHANGED <<request, response, risk_calls, rate_calls, float_tie_up,
                   qi_tech_calls, random_state, history, learned>>

\* calculate_risk_score, block 2: the weighted sum and the clamp
aplicacao_dos_pesos(c) ==
    /\ invocations[c].function = "calculate_risk_score"
    /\ invocations[c].pc = "normalised"
    /\ LET d == invocations[c].args
           f == frames[frame_of(c)]
       IN  IF OverflowError(d.cnpj_score_api)
           THEN /\ invocations' = [invocations EXCEPT
                       ![c].pc = "raised", ![c].result = [raised |-> TRUE]]
                /\ UNCHANGED frames
           ELSE /\ frames' = [frames EXCEPT ![frame_of(c)].risco_final =
                       clamp(risco_final(f.risco_endividamento, f.risco_liquidez,
                                         f.risco_estresse, f.risco_concentracao,
                                         f.risco_idade, f.risco_cpf,
                                         d.cnpj_score_api))]
                /\ invocations' = [invocations EXCEPT ![c].pc = "weighed"]
    /\ UNCHANGED <<request, response, risk_calls, rate_calls, float_tie_up,
                   qi_tech_calls, random_state, history, learned>>

\* calculate_risk_score, block 3: the grade and the return
classificacao_do_risco(c) ==
    /\ invocations[c].function = "calculate_risk_score"
    /\ invocations[c].pc = "weighed"
    /\ LET f == frames[frame_of(c)]
       IN  invocations' = [invocations EXCEPT
             ![c].pc = "returned",
             ![c].result =
                 [score |-> round(f.risco_final, PointUnit \div ScoreUnit,
                                  float_tie_up),
                  classificacao |-> classificacao(f.risco_final)]]
    /\ UNCHANGED <<request, response, risk_calls, rate_calls, float_tie_up,
                   qi_tech_calls, random_state, history, frames, learned>>

\* calcular_taxa_juros_anual, block 1: the three premia
premios(c) ==
    /\ invocations[c].function = "calcular_taxa_juros_anual"
    /\ invocations[c].pc = "called"
    /\ LET a == invocations[c].args
       IN  frames' = [frames EXCEPT ![frame_of(c)] =
             [@ EXCEPT !.premio_risco = premio_risco(a.risco_final),
                       !.premio_prazo = premio_prazo(a.prazo_meses),
                       !.premio_valor = premio_valor(a.valor_solicitado)]]
    /\ invocations' = [invocations EXCEPT ![c].pc = "priced"]
    /\ UNCHANGED <<request, response, risk_calls, rate_calls, float_tie_up,
                   qi_tech_calls, random_state, history, learned>>

\* calcular_taxa_juros_anual, block 2: the sum and the return
taxa_final_anual(c) ==
    /\ invocations[c].function = "calcular_taxa_juros_anual"
    /\ invocations[c].pc = "priced"
    /\ LET f == frames[frame_of(c)]
       IN  invocations' = [invocations EXCEPT
             ![c].pc = "returned",
             ![c].result =
                 [taxa_final_anual |->
                     TAXA_BASE + (f.premio_risco + f.premio_prazo + f.premio_valor)]]
    /\ UNCHANGED <<request, response, risk_calls, rate_calls, float_tie_up,
                   qi_tech_calls, random_state, history, frames, learned>>

NextConcurrent ==
    \/ \E c \in Callers : normalizacao(c)
    \/ \E c \in Callers : aplicacao_dos_pesos(c)
    \/ \E c \in Callers : classificacao_do_risco(c)
    \/ \E c \in Callers : premios(c)
    \/ \E c \in Callers : taxa_final_anual(c)

SpecConcurrent == InitConcurrent /\ [][NextConcurrent]_vars

-----------------------------------------------------------------------------
(* The statistical model: RiskScorePredictor of                            *)
(* src/models/risk_score_model.py.  A pipeline of scikit-learn is None,    *)
(* constructed but not fitted, or fitted; what the library computes from   *)
(* the data is left open: a data frame says where, if anywhere, the        *)
(* library raises on it, and a fitted pipeline predicts any number.        *)

\* the feature_columns the constructor sets
feature_columns ==
    {"idade_empresa", "divida_total", "faturamento_anual",
     "saldo_medio_diario", "estresse_caixa_dias", "valor_maior_cliente",
     "concentracao_clientes"}

\* the object the constructor leaves
RiskScorePredictor ==
    [model_type |-> "linear", pipeline |-> "None", is_trained |-> FALSE,
     feature_columns |-> feature_columns]

\* the columns prepare_features selects from a frame with the given columns:
\* concentracao_clientes is always added to the frame first
prepare_features(self, columns) ==
    self.feature_columns \cap (columns \cup {"concentracao_clientes"})

NotTrained == "ValueError: Modelo não foi treinado ainda"

NoFeatures == "ValueError: Nenhuma característica disponível para treinamento"

\* what a call returned or raised; raised = "" when it returned
Outcome(call, raised) ==
    [call |-> call, raised |-> raised, filepath |-> "", result |-> FALSE,
     prediction |-> 0, predicted_score |-> 0, classificacao |-> ""]

\* the frames train is called with: their columns, and the library call
\* that raises on their rows ("" when none does)
DataFrames ==
    [columns : {{"score", "idade_empresa", "divida_total"},
                {"idade_empresa", "divida_total"}},
     raises_in : {"", "train_test_split", "fit", "cross_val_score"}]

\* train(df) with the default target column: the object it leaves and the
\* exception it raised.  self.pipeline is assigned before fit is called and
\* is_trained only after the cross-validation.
train_of(self, df) ==
    IF "score" \notin df.columns
    THEN [self |-> self,
          raised |-> "ValueError: Coluna alvo 'score' não encontrada"]
    ELSE IF prepare_features(self, df.columns) = {}
    THEN [self |-> self, raised |-> NoFeatures]
    ELSE IF df.raises_in = "train_test_split"
    THEN [self |-> self, raised |-> "train_test_split"]
    ELSE IF df.raises_in = "fit"
    THEN [self |-> [self EXCEPT !.pipeline = "unfitted"], raised |-> "fit"]
    ELSE IF df.raises_in = "cross_val_score"
    THEN [self |-> [self EXCEPT !.pipeline = "fitted"],
          raised |-> "cross_val_score"]
    ELSE [self |-> [self EXCEPT !.pipeline = "fitted", !.is_trained = TRUE],
          raised |-> ""]

train ==
    \E df \in DataFrames :
        /\ predictor' = train_of(predictor, df).self
        /\ returned' = Outcome("train", train_of(predictor, df).raised)
        /\ UNCHANGED <<trained_models, request, response, risk_calls,
                       rate_calls, float_tie_up, qi_tech_calls, random_state,
                       history, invocations, frames>>

\* a ladder with non-strict comparisons
predict_classificacao_nonstrict(prediction) ==
    IF prediction >= 800 * PointUnit THEN "A"
    ELSE IF prediction >= 600 * PointUnit THEN "B"
    ELSE IF prediction >= 400 * PointUnit THEN "C"
    ELSE IF prediction >= 200 * PointUnit THEN "D"
    ELSE "automatically_reproved"

\* the ladder of predict, on a prediction in 1/PointUnit points
predict_classificacao(prediction) ==
    IF prediction > 800 * PointUnit THEN "A"
    ELSE IF prediction > 600 * PointUnit THEN "B"
    ELSE IF prediction > 400 * PointUnit THEN "C"
    ELSE IF prediction > 200 * PointUnit THEN "D"
    ELSE "automatically_reproved"

\* what a fitted pipeline may predict, in 1/PointUnit points: the four
\* thresholds of the ladder, their neighbours, and values outside 0..1000
Predictions ==
    {t * PointUnit + e : t \in {200, 400, 600, 800}, e \in {-1, 0, 1}}
        \cup {-50 * PointUnit, 0, 1000 * PointUnit, 1200 * PointUnit}

\* the feature dictionaries predict is called with, by their keys
Features == {{"idade_empresa", "divida_total", "faturamento_anual"}}

predict ==
    \E features \in Features :
        /\ IF ~predictor.is_trained
           THEN returned' = Outcome("predict", NotTrained)
           ELSE IF prepare_features(predictor, features) = {}
           THEN returned' = Outcome("predict", NoFeatures)
           ELSE IF predictor.pipeline = "None"
           THEN returned' = Outcome("predict", "AttributeError")
           ELSE IF predictor.pipeline = "unfitted"
           THEN returned' = Outcome("predict", "NotFittedError")
           ELSE \E prediction \in Predictions :
                    returned' =
                        [Outcome("predict", "") EXCEPT
                           !.prediction = prediction,
                           !.predicted_score =
                               round(prediction, PointUnit \div ScoreUnit,
                                     float_tie_up),
                           !.classificacao =
                               predict_classificacao(prediction)]
        /\ UNCHANGED <<predictor, trained_models, request, response,
                       risk_calls, rate_calls, float_tie_up, qi_tech_calls,
                       random_state, history, invocations, frames>>

\* the keys load_model reads from a stored dictionary, in its order
ModelDataKeys == <<"model", "model_type", "is_trained", "feature_columns">>

\* a path where joblib.load finds no file
NoFile ==
    [kind |-> "missing", keys |-> {}, model |-> "None", model_type |-> "",
     is_trained |-> FALSE, feature_columns |-> {}]

\* a file joblib.load cannot read
Unreadable == [NoFile EXCEPT !.kind = "unreadable"]

\* the dictionary save_model dumps
model_data(self) ==
    [kind |-> "dict",
     keys |-> {ModelDataKeys[i] : i \in 1..Len(ModelDataKeys)},
     model |-> self.pipeline, model_type |-> self.model_type,
     is_trained |-> self.is_trained,
     feature_columns |-> self.feature_columns]

\* the files a directory may hold before any call: none, an unreadable one,
\* or a dictionary written by this class or by anything else, with any of
\* the keys and either value of is_trained (a key that is absent has the
\* value of NoFile)
StoredFiles ==
    {NoFile, Unreadable} \cup
    {f \in [kind : {"dict"},
            keys : SUBSET {ModelDataKeys[i] : i \in 1..Len(ModelDataKeys)},
            model : {"None", "unfitted", "fitted"},
            model_type : {"", "ridge"},
            is_trained : BOOLEAN,
            feature_columns : {{}, feature_columns}] :
        /\ ("model" \in f.keys) = (f.model # "None")
        /\ ("model_type" \in f.keys) = (f.model_type # "")
        /\ "is_trained" \notin f.keys => ~f.is_trained
        /\ "feature_columns" \notin f.keys => f.feature_columns = {}}

Filenames == {"risk_score_model_linear.pkl", "other.pkl"}

save_model ==
    \E filename \in Filenames :
        /\ IF ~predictor.is_trained
           THEN /\ returned' = Outcome("save_model", NotTrained)
                /\ UNCHANGED trained_models
           ELSE /\ trained_models' =
                       [trained_models EXCEPT ![filename] = model_data(predictor)]
                /\ returned' =
                       [Outcome("save_model", "") EXCEPT !.filepath = filename]
        /\ UNCHANGED <<predictor, request, response, risk_calls, rate_calls,
                       float_tie_up, qi_tech_calls, random_state, history,
                       invocations, frames>>

\* load_model(filepath) on the file at that path: the object it leaves and
\* the value it returns.  The four assignments run one after another inside
\* the try block; the first key that is absent raises KeyError, which the
\* except clause turns into False, after the assignments before it.
load_model_of(self, file) ==
    IF file.kind # "dict" \/ "model" \notin file.keys
    THEN [self |-> self, result |-> FALSE]
    ELSE LET s1 == [self EXCEPT !.pipeline = file.model]
         IN  IF "model_type" \notin file.keys
             THEN [self |-> s1, result |-> FALSE]
             ELSE LET s2 == [s1 EXCEPT !.model_type = file.model_type]
                  IN  IF "is_trained" \notin file.keys
                      THEN [self |-> s2, result |-> FALSE]
                      ELSE LET s3 == [s2 EXCEPT
                                        !.is_trained = file.is_trained]
                           IN  IF "feature_columns" \notin file.keys
                               THEN [self |-> s3, result |-> FALSE]
                               ELSE [self |->
                                       [s3 EXCEPT !.feature_columns =
                                                    file.feature_columns],
                                     result |-> TRUE]

load_model ==
    \E filepath \in Filenames :
        /\ predictor' = load_model_of(predictor, trained_models[filepath]).self
        /\ returned' =
               [Outcome("load_model", "") EXCEPT
                  !.filepath = filepath,
                  !.result =
                      load_model_of(predictor, trained_models[filepath]).result]
        /\ UNCHANGED <<trained_models, request, response, risk_calls,
                       rate_calls, float_tie_up, qi_tech_calls, random_state,
                       history, invocations, frames>>

\* A predictor just constructed, in a directory that holds one file written
\* earlier and has room for another.
InitPredictor ==
    /\ request = [endpoint |-> ""]
    /\ response = Pending
    /\ risk_calls = <<>>
    /\ rate_calls = <<>>
    /\ float_tie_up \in BOOLEAN
    /\ qi_tech_calls = <<>>
    /\ random_state = 0
    /\ history = <<>>
    /\ invocations = <<>>
    /\ frames = <<>>
    /\ predictor = RiskScorePredictor
    /\ trained_models \in
           {[f \in Filenames |-> IF f = "other.pkl" THEN stored ELSE NoFile] :
                stored \in StoredFiles}
    /\ returned = Outcome("__init__", "")

NextPredictor ==
    \/ train
    \/ predict
    \/ save_model
    \/ load_model

SpecPredictor == InitPredictor /\ [][NextPredictor]_vars

-----------------------------------------------------------------------------
(* Vocabulary of the properties *)

RiskEndpoint == "/calculate-risk-score"

InterestEndpoint == "/calculate-interest-rate"

FullEndpoint == "/calculate-full-score"

Answered(endpoint) == request.endpoint = endpoint /\ response # Pending

\* the request reached calculate_risk_score, which has returned or raised
Scored == request.endpoint \in {RiskEndpoint, FullEndpoint} /\ response # Pending

\* a valid CompanyFinancials: nothing negative, bureau score in 0..1000
ValidFinancials(d) ==
    /\ \A k \in DOMAIN d : d[k] >= 0
    /\ d.cnpj_score_api <= 1000

Grades == {"A", "B", "C", "D", "automatically_reproved"}

\* the grade table of the specification, on a score in 1/ScoreUnit points
GradeTable(score) ==
    CASE score > 800 * ScoreUnit -> "A"
      [] score <= 800 * ScoreUnit /\ score > 600 * ScoreUnit -> "B"
      [] score <= 600 * ScoreUnit /\ score > 400 * ScoreUnit -> "C"
      [] score <= 400 * ScoreUnit /\ score > 200 * ScoreUnit -> "D"
      [] score <= 200 * ScoreUnit -> "automatically_reproved"

\* A bucket table of the specification: rows <<tn, td, value>> read top
\* down, each row holding when x = xn/xd is beyond the threshold tn/td
\* (above it for an "above" table, below it otherwise), and the value
\* when no row holds.  xd and td are positive.
Beyond(above, xn, xd, row) ==
    IF above THEN xn * row[2] > row[1] * xd ELSE xn * row[2] < row[1] * xd

BucketTable(above, rows, otherwise, xn, xd) ==
    LET hits == {i \in DOMAIN rows : Beyond(above, xn, xd, rows[i])}
    IN  IF hits = {} THEN otherwise
        ELSE rows[CHOOSE i \in hits : \A j \in hits : i <= j][3]

\* on a threshold of the table the value is the higher of the two buckets
\* the threshold separates
TieBreakHigher(rows, otherwise, xn, xd, value) ==
    \A i \in DOMAIN rows :
        xn * rows[i][2] = rows[i][1] * xd =>
            LET next == IF i = Len(rows) THEN otherwise ELSE rows[i + 1][3]
            IN  value = max(rows[i][3], next)

AgeRows == <<<<2, 1, 400>>, <<5, 1, 600>>>>

CreditRows == <<<<400, 1, 100>>, <<700, 1, 500>>, <<900, 1, 700>>>>

LeverageRows == <<<<10, 10, 100>>, <<6, 10, 300>>, <<3, 10, 700>>>>

LiquidityRows == <<<<1, 10, 100>>, <<4, 10, 500>>>>

CashStressRows == <<<<10, 1, 0>>, <<5, 1, 300>>, <<0, 1, 700>>>>

ConcentrationRows == <<<<6, 10, 100>>, <<3, 10, 500>>, <<2, 10, 900>>>>

\* the weighted sum of the specification, in 1/ScoreUnit points
\* (weights 0.15, 0.10, 0.10, 0.05, 0.05, 0.05 and 0.50)
WeightedSum(leverage, liquidity, stress, concentration, age, credit, bureau) ==
    15 * leverage + 10 * liquidity + 10 * stress + 5 * concentration +
    5 * age + 5 * credit + 50 * bureau

-----------------------------------------------------------------------------
(* C1 *)

\* C1: the score calculate_risk_score returns is never below 0 and never
\* above 1000 -- for every valid CompanyFinancials, and for the requests
\* with a bureau score outside 0..1000 as well.
C1_ScoreInRange ==
    Scored =>
        /\ response.status = 200
        /\ \A i \in DOMAIN risk_calls :
             /\ 0 <= risk_calls[i].score
             /\ risk_calls[i].score <= 1000 * ScoreUnit
        /\ 0 <= response.score
        /\ response.score <= 1000 * ScoreUnit

\* a valid request answered with the highest score, 1000
C1_Witness ==
    /\ Answered(RiskEndpoint)
    /\ ValidFinancials(request.data)
    /\ response.score = 1000 * ScoreUnit

-----------------------------------------------------------------------------
(* C2 *)

\* C2: the grade returned is the one the strict ladder (>800 A, >600 B,
\* >400 C, >200 D, else rejected) gives to the score returned with it; a
\* returned 800 is B, 600 is C, 400 is D, 200 is rejected; the grade is one
\* of the five values.
C2_GradeMatchesScore ==
    Scored =>
        /\ response.classificacao = GradeTable(response.score)
        /\ response.classificacao \in Grades
        /\ response.score = 800 * ScoreUnit => response.classificacao = "B"
        /\ response.score = 600 * ScoreUnit => response.classificacao = "C"
        /\ response.score = 400 * ScoreUnit => response.classificacao = "D"
        /\ response.score = 200 * ScoreUnit =>
               response.classificacao = "automatically_reproved"

\* a valid request answered with a score of exactly 800 and grade B
C2_Witness ==
    /\ Answered(RiskEndpoint)
    /\ ValidFinancials(request.data)
    /\ response.score = 800 * ScoreUnit
    /\ response.classificacao = "B"

-----------------------------------------------------------------------------
(* C3 *)

LiteralScored == Scored /\ request.data = Literal

\* C3 as stated: the literal indicators give leverage 1000, liquidity 500,
\* cash-stress 700, concentration 500, age 600, personal-credit 700, a final
\* score of 760 and grade B.
C3_Original ==
    LiteralScored =>
        /\ risk_calls[1].risco_endividamento = 1000
        /\ risk_calls[1].risco_liquidez = 500
        /\ risk_calls[1].risco_estresse = 700
        /\ risk_calls[1].risco_concentracao = 500
        /\ risk_calls[1].risco_idade = 600
        /\ risk_calls[1].risco_cpf = 700
        /\ response.score = 760 * ScoreUnit
        /\ response.classificacao = "B"

\* C3 amended: the literal indicators give leverage 1000, liquidity 500,
\* cash-stress 700, concentration 900 (80000/300000 is above 0.2 and not
\* above 0.3), age 600, personal-credit 700, a final score of 780 and
\* grade B.
C3_LiteralScenario ==
    LiteralScored =>
        /\ risk_calls[1].risco_endividamento = 1000
        /\ risk_calls[1].risco_liquidez = 500
        /\ risk_calls[1].risco_estresse = 700
        /\ risk_calls[1].risco_concentracao = 900
        /\ risk_calls[1].risco_idade = 600
        /\ risk_calls[1].risco_cpf = 700
        /\ risk_calls[1].score = 780 * ScoreUnit
        /\ response.score = 780 * ScoreUnit
        /\ response.classificacao = "B"

\* the literal indicators answered by /calculate-risk-score
C3_Witness ==
    /\ Answered(RiskEndpoint)
    /\ request.data = Literal
    /\ response.status = 200
    /\ Len(risk_calls) = 1

-----------------------------------------------------------------------------
(* C4 *)

\* C4: each sub-score is the value of the specification's bucket table
\* (age <2 400, <5 600, else 1000; personal-credit <400 100, <700 500,
\* <900 700, else 1000; leverage >1.0 100, >0.6 300, >0.3 700, else 1000;
\* liquidity <0.1 100, <0.4 500, else 1000; cash-stress >10 0, >5 300,
\* >0 700, else 1000; concentration >0.6 100, >0.3 500, >0.2 900, else
\* 1000; a ratio with a denominator <= 0 gives 0), and an input exactly on
\* a threshold gets the higher of the two adjacent buckets.
C4_SubScoresMatchTable ==
    Scored =>
        LET d == request.data
            c == risk_calls[1]
        IN  /\ c.risco_idade =
                 BucketTable(FALSE, AgeRows, 1000, d.idade_empresa, AgeUnit)
            /\ TieBreakHigher(AgeRows, 1000, d.idade_empresa, AgeUnit, c.risco_idade)
            /\ c.risco_cpf = BucketTable(FALSE, CreditRows, 1000, d.cpf_score, 1)
            /\ TieBreakHigher(CreditRows, 1000, d.cpf_score, 1, c.risco_cpf)
            /\ c.risco_estresse =
                 BucketTable(TRUE, CashStressRows, 1000, d.estresse_caixa_dias, 1)
            /\ TieBreakHigher(CashStressRows, 1000, d.estresse_caixa_dias, 1,
                              c.risco_estresse)
            /\ IF d.faturamento_anual > 0
               THEN /\ c.risco_endividamento =
                         BucketTable(TRUE, LeverageRows, 1000, d.divida_total,
                                     d.faturamento_anual)
                    /\ TieBreakHigher(LeverageRows, 1000, d.divida_total,
                                      d.faturamento_anual, c.risco_endividamento)
               ELSE c.risco_endividamento = 0
            /\ IF d.faturamento_medio_mensal > 0
               THEN /\ c.risco_liquidez =
                         BucketTable(FALSE, LiquidityRows, 1000, d.saldo_medio_diario,
                                     d.faturamento_medio_mensal)
                    /\ TieBreakHigher(LiquidityRows, 1000, d.saldo_medio_diario,
                                      d.faturamento_medio_mensal, c.risco_liquidez)
               ELSE c.risco_liquidez = 0
            /\ IF d.faturamento_total_periodo > 0
               THEN /\ c.risco_concentracao =
                         BucketTable(TRUE, ConcentrationRows, 1000,
                                     d.valor_maior_cliente, d.faturamento_total_periodo)
                    /\ TieBreakHigher(ConcentrationRows, 1000, d.valor_maior_cliente,
                                      d.faturamento_total_periodo, c.risco_concentracao)
               ELSE c.risco_concentracao = 0

\* a liquidity ratio of exactly 0.1, scored 500 and not 100
C4_Witness ==
    /\ Scored
    /\ request.data.faturamento_medio_mensal > 0
    /\ 10 * request.data.saldo_medio_diario = request.data.faturamento_medio_mensal
    /\ risk_calls[1].risco_liquidez = 500

-----------------------------------------------------------------------------
(* Vocabulary of the pricing properties; rates in 1/RateUnit *)

\* a percentage as a rate: Percent(12) is 0.12; tenths of a percent likewise
Percent(n) == (n * RateUnit) \div 100

PerMille(n) == (n * RateUnit) \div 1000

\* the premium tables of the specification
TermPremiumTable(term) ==
    CASE term \in 1..6 -> Percent(0)
      [] term \in 7..12 -> Percent(2)
      [] term \in 13..18 -> Percent(4)
      [] OTHER -> Percent(6)

AmountPremiumTable(amount) ==
    CASE amount >= 300000 -> Percent(5)
      [] amount >= 150000 /\ amount < 300000 -> PerMille(25)
      [] amount >= 50000 /\ amount < 150000 -> Percent(1)
      [] OTHER -> Percent(0)

\* ((1000 - final_score) / 1000) * 0.25, final_score in 1/ScoreUnit points
RiskPremiumFormula(final_score) ==
    ((1000 * ScoreUnit - final_score) * (RateUnit \div (1000 * ScoreUnit))) \div 4

\* the declared domain of a PricingRequest, as the pricer received it
InPricingDomain(c) ==
    /\ 0 <= c.risco_final
    /\ c.risco_final <= 1000 * ScoreUnit
    /\ c.prazo_meses > 0
    /\ c.valor_solicitado >= 0

\* the extreme request of the domain: lowest score, long term, large amount
ExtremeRequest(c) ==
    /\ c.risco_final = 0
    /\ c.prazo_meses > 18
    /\ c.valor_solicitado >= 300000

-----------------------------------------------------------------------------
(* C5 *)

\* C5: for every final_score, term_months > 0 and requested_amount >= 0 the
\* pricer returns 0.12 + ((1000 - final_score)/1000)*0.25 + term_premium +
\* amount_premium, with term_premium 0.00 up to 6 months, 0.02 up to 12,
\* 0.04 up to 18 and 0.06 beyond, and amount_premium 0.00 below 50000, 0.01
\* below 150000, 0.025 below 300000 and 0.05 from there; a term of exactly
\* 12 gets 0.02; a score of 1000 contributes 0 and a score of 0 contributes
\* 0.25.
C5_RateFormula ==
    \A i \in DOMAIN rate_calls :
        LET c == rate_calls[i]
        IN  (c.prazo_meses > 0 /\ c.valor_solicitado >= 0) =>
                /\ c.taxa_final_anual =
                       Percent(12) + RiskPremiumFormula(c.risco_final)
                       + TermPremiumTable(c.prazo_meses)
                       + AmountPremiumTable(c.valor_solicitado)
                /\ c.premio_prazo = TermPremiumTable(c.prazo_meses)
                /\ c.premio_valor = AmountPremiumTable(c.valor_solicitado)
                /\ c.prazo_meses = 12 => c.premio_prazo = Percent(2)
                /\ c.risco_final = 1000 * ScoreUnit => c.premio_risco = 0
                /\ c.risco_final = 0 => c.premio_risco = Percent(25)

\* /calculate-interest-rate answered for a term of exactly 12 months
C5_Witness ==
    /\ Answered(InterestEndpoint)
    /\ request.prazo_meses = 12
    /\ Len(rate_calls) = 1
    /\ rate_calls[1].premio_prazo = Percent(2)

-----------------------------------------------------------------------------
(* C6 *)

\* TEST_INTEREST_DATA: final_score 650.5, 12 months, 100000
LiteralPriced ==
    /\ Answered(InterestEndpoint)
    /\ request.risco_final = 65050
    /\ request.prazo_meses = 12
    /\ request.valor_solicitado = 100000

\* C6: final_score 650.5, 12 months and 100000 give risk_premium 0.087375,
\* term_premium 0.02, amount_premium 0.01 and an annual rate of 0.237375,
\* which /calculate-interest-rate reports as 0.2374.
C6_LiteralPricing ==
    LiteralPriced =>
        /\ rate_calls[1].premio_risco = 873750
        /\ rate_calls[1].premio_prazo = 200000
        /\ rate_calls[1].premio_valor = 100000
        /\ rate_calls[1].taxa_final_anual = 2373750
        /\ response.status = 200
        /\ response.taxa_juros_anual = 2374

\* the literal pricing request answered
C6_Witness == LiteralPriced /\ Len(rate_calls) = 1

-----------------------------------------------------------------------------
(* C7 *)

\* C7: for every PricingRequest with final_score in [0,1000], term_months
\* > 0 and requested_amount >= 0 the annual rate the pricer returns, and
\* the rate /calculate-interest-rate and /calculate-full-score report, are
\* between 0 and 1.
C7_RateWithinUnitInterval ==
    \A i \in DOMAIN rate_calls :
        InPricingDomain(rate_calls[i]) =>
            /\ 0 <= rate_calls[i].taxa_final_anual
            /\ rate_calls[i].taxa_final_anual <= RateUnit
            /\ response.status = 200
            /\ 0 <= response.taxa_juros_anual
            /\ response.taxa_juros_anual <= RateOutUnit

\* /calculate-full-score answered: a long term and a large amount, priced
\* on the score just computed
C7_Witness ==
    /\ Answered(FullEndpoint)
    /\ response.status = 200
    /\ request.prazo_meses > 18
    /\ request.valor_solicitado >= 300000
    /\ Len(rate_calls) = 1
    /\ InPricingDomain(rate_calls[1])
    /\ rate_calls[1].risco_final = response.score

-----------------------------------------------------------------------------
(* C8 *)

\* C8 as stated: within the declared domain, an extreme low score with a
\* long term and a large amount is priced above 1.0.
C8_Original ==
    \A i \in DOMAIN rate_calls :
        (InPricingDomain(rate_calls[i]) /\ ExtremeRequest(rate_calls[i])) =>
            rate_calls[i].taxa_final_anual > RateUnit

\* C8 amended: no request of the declared domain is priced above 0.48, the
\* rate of the extreme request (score 0, term > 18, amount >= 300000); the
\* pricer does not clamp, and a rate above 1.0 needs a final_score below
\* -2080, outside the domain.
C8_RateAtMost048 ==
    \A i \in DOMAIN rate_calls :
        LET c == rate_calls[i]
        IN  (c.prazo_meses > 0 /\ c.valor_solicitado >= 0) =>
                /\ InPricingDomain(c) => c.taxa_final_anual <= Percent(48)
                /\ ExtremeRequest(c) => c.taxa_final_anual = Percent(48)
                /\ c.taxa_final_anual > RateUnit => c.risco_final < -2080 * ScoreUnit
                /\ c.risco_final <= -3000 * ScoreUnit => c.taxa_final_anual > RateUnit

\* the extreme request of the domain priced at 0.48
C8_Witness ==
    /\ Answered(InterestEndpoint)
    /\ ExtremeRequest(request)
    /\ Len(rate_calls) = 1
    /\ rate_calls[1].taxa_final_anual = Percent(48)
    /\ response.taxa_juros_anual = 4800

-----------------------------------------------------------------------------
(* C9 *)

\* C9: whenever annual_revenue, average_monthly_revenue or
\* period_total_revenue is zero or negative, calculate_risk_score raises no
\* error, does not divide by that denominator, and the leverage, liquidity
\* or concentration sub-score is exactly 0 and adds nothing to the final
\* score; the endpoint answers 200.
C9_UndefinedRatioIsZero ==
    Scored =>
        LET d == request.data
            c == risk_calls[1]
            lev == IF d.faturamento_anual <= 0 THEN 0 ELSE c.risco_endividamento
            liq == IF d.faturamento_medio_mensal <= 0 THEN 0 ELSE c.risco_liquidez
            con == IF d.faturamento_total_periodo <= 0 THEN 0 ELSE c.risco_concentracao
        IN  (\/ d.faturamento_anual <= 0
             \/ d.faturamento_medio_mensal <= 0
             \/ d.faturamento_total_periodo <= 0) =>
                /\ ~c.raised
                /\ response.status = 200
                /\ d.faturamento_anual <= 0 =>
                       ~c.divided_by.faturamento_anual /\ c.risco_endividamento = 0
                /\ d.faturamento_medio_mensal <= 0 =>
                       ~c.divided_by.faturamento_medio_mensal /\ c.risco_liquidez = 0
                /\ d.faturamento_total_periodo <= 0 =>
                       ~c.divided_by.faturamento_total_periodo
                       /\ c.risco_concentracao = 0
                /\ c.soma * ScoreUnit =
                       PointUnit * WeightedSum(lev, liq, c.risco_estresse, con,
                                               c.risco_idade, c.risco_cpf,
                                               d.cnpj_score_api)

\* /calculate-risk-score answered 200 with all three revenues zero
C9_Witness ==
    /\ Answered(RiskEndpoint)
    /\ request.data.faturamento_anual = 0
    /\ request.data.faturamento_medio_mensal = 0
    /\ request.data.faturamento_total_periodo = 0
    /\ response.status = 200

-----------------------------------------------------------------------------
(* C10 *)

\* the values of total_debt explored
DividaValues == {d.divida_total : d \in RiskInputs}

\* C10: of two valid inputs that differ only in total_debt, the one with
\* the smaller total_debt never has the lower final score, whatever
\* annual_revenue is, zero included.
C10_MonotoneInDebt ==
    (Answered(RiskEndpoint) /\ ValidFinancials(request.data)) =>
        \A v \in DividaValues :
            (0 <= v /\ v <= request.data.divida_total) =>
                calculate_risk_score([request.data EXCEPT !.divida_total = v],
                                     float_tie_up).score >= response.score

\* a valid input for which a smaller total_debt gives a strictly higher
\* final score
C10_Witness ==
    /\ Answered(RiskEndpoint)
    /\ ValidFinancials(request.data)
    /\ \E v \in DividaValues :
           /\ 0 <= v
           /\ v < request.data.divida_total
           /\ calculate_risk_score([request.data EXCEPT !.divida_total = v],
                                   float_tie_up).score > response.score

-----------------------------------------------------------------------------
(* C11 *)

-----------------------------------------------------------------------------
(* C13 *)

\* C13: what /calculate-full-score answers on indicators X, a term and an
\* amount is the composition of the two other endpoints: its score and
\* grade are those calculate_risk_score gives on X (what
\* /calculate-risk-score answers), and its rate is the one
\* calcular_taxa_juros_anual gives on the returned score, rounded to two
\* decimals, with the same term and amount, rounded to four decimals (what
\* /calculate-interest-rate answers).  The pricing call comes after the
\* scoring call and receives the score that call has just returned.
C13_FullIsComposition ==
    Answered(FullEndpoint) =>
        LET alone == calculate_risk_score(request.data, float_tie_up)
            priced == calcular_taxa_juros_anual(response.score, request.prazo_meses,
                                                request.valor_solicitado)
        IN  /\ response.status = 200
            /\ response.score = alone.score
            /\ response.classificacao = alone.classificacao
            /\ response.taxa_juros_anual =
                   round(priced.taxa_final_anual, RateUnit \div RateOutUnit,
                         float_tie_up)
            /\ Len(risk_calls) = 1
            /\ Len(rate_calls) = 1
            /\ rate_calls[1].risco_final = risk_calls[1].score
            /\ rate_calls[1].prazo_meses = request.prazo_meses
            /\ rate_calls[1].valor_solicitado = request.valor_solicitado

\* the literal indicators answered by /calculate-full-score, scored 780 and
\* priced for 18 months and an amount of 150000
C13_Witness ==
    /\ Answered(FullEndpoint)
    /\ request.data = Literal
    /\ request.prazo_meses = 18
    /\ request.valor_solicitado = 150000
    /\ response.score = 780 * ScoreUnit
    /\ response.taxa_juros_anual > 0

-----------------------------------------------------------------------------
(* C17 *)

\* C17: for every valid CompanyFinancials the returned score is strictly
\* greater than 0 -- also when all three ratios are undefined (their
\* denominators are 0) and the bureau score is 0: the age and
\* personal-credit sub-scores are never below 400 and 100, so the score is
\* at least 0.05 * 400 + 0.05 * 100 = 25.
C17_ScorePositive ==
    (Scored /\ ValidFinancials(request.data)) =>
        /\ response.status = 200
        /\ response.score > 0
        /\ risk_calls[1].score > 0
        /\ risk_calls[1].risco_idade >= 400
        /\ risk_calls[1].risco_cpf >= 100
        /\ response.score >= 25 * ScoreUnit

\* a valid request with the three ratios undefined, a bureau score of 0 and
\* the lowest age and personal-credit buckets, answered with a score of 25
C17_Witness ==
    /\ Answered(RiskEndpoint)
    /\ ValidFinancials(request.data)
    /\ request.data.faturamento_anual = 0
    /\ request.data.faturamento_medio_mensal = 0
    /\ request.data.faturamento_total_periodo = 0
    /\ request.data.cnpj_score_api = 0
    /\ response.score = 25 * ScoreUnit

-----------------------------------------------------------------------------
(* C20 *)

\* C20: the seven weights sum to exactly 1.00, and for every input whose
\* bureau score is in 0..1000 -- whatever the other indicators -- the
\* weighted sum is already within 0..1000 before the clamp, so the clamp
\* returns it unchanged.
C20_ClampIsIdentity ==
    /\ pesos.idade + pesos.cpf_score + pesos.endividamento + pesos.liquidez +
       pesos.estresse_caixa + pesos.concentracao + pesos.score_biro = PointUnit
    /\ (/\ Scored
        /\ request.data.cnpj_score_api >= 0
        /\ request.data.cnpj_score_api <= 1000) =>
           /\ risk_calls[1].soma >= 0
           /\ risk_calls[1].soma <= 1000 * PointUnit
           /\ risk_calls[1].risco_final = risk_calls[1].soma
           /\ response.score * (PointUnit \div ScoreUnit) = risk_calls[1].soma

\* a valid request whose weighted sum is 1000, the upper limit of the
\* clamp, reached without the clamp acting
C20_Witness ==
    /\ Scored
    /\ ValidFinancials(request.data)
    /\ risk_calls[1].soma = 1000 * PointUnit
    /\ risk_calls[1].risco_final = risk_calls[1].soma

-----------------------------------------------------------------------------
(* C14 *)

ScoringEndpoints == {RiskEndpoint, InterestEndpoint, FullEndpoint}

\* the required fields of the body of a scoring endpoint
Required(endpoint) ==
    CASE endpoint = RiskEndpoint -> RiskScoreInput
      [] endpoint = InterestEndpoint -> InterestRateInput
      [] endpoint = FullEndpoint -> FullScoreInput

\* a required field is missing from the body or has a value of the wrong
\* type
MissingOrWrongTyped(req) ==
    \E f \in Required(req.endpoint) :
        \/ f \notin DOMAIN req.data \cup (DOMAIN req \ {"endpoint", "data", "unparsable"})
        \/ f \in req.unparsable

-----------------------------------------------------------------------------
(* C15 *)

\* every required field of the body is present with a value of its type
TypeValid(req) ==
    req.endpoint \in ScoringEndpoints /\ ~MissingOrWrongTyped(req)

\* the integer is one that a double holds
WithinFloatRange(n) == -FloatRange < n /\ n < FloatRange

\* C15 as stated: every request whose fields pass the type validation,
\* negative values included, is answered 200; neither function raises and
\* the handlers' 400 branch is never taken.
C15_Original ==
    (TypeValid(request) /\ response # Pending) =>
        /\ response.status = 200
        /\ \A i \in DOMAIN risk_calls : ~risk_calls[i].raised

\* C15 amended: every request whose fields pass the type validation,
\* negative values included, and whose bureau score is an integer that a
\* double holds is answered 200, neither function raising.  A bureau score
\* beyond the doubles makes calculate_risk_score raise OverflowError in the
\* weighted sum: /calculate-risk-score and /calculate-full-score then
\* answer 400 and the pricer is not called.  /calculate-interest-rate
\* answers 200 to every request that passes the validation.
C15_NoErrorWithinFloatRange ==
    (TypeValid(request) /\ response # Pending) =>
        IF /\ request.endpoint \in {RiskEndpoint, FullEndpoint}
           /\ ~WithinFloatRange(request.data.cnpj_score_api)
        THEN /\ response.status = 400
             /\ Len(risk_calls) = 1
             /\ risk_calls[1].raised
             /\ rate_calls = <<>>
        ELSE /\ response.status = 200
             /\ \A i \in DOMAIN risk_calls : ~risk_calls[i].raised
             /\ Len(risk_calls) + Len(rate_calls) >= 1

\* a request with a negative total debt over a zero revenue has passed the
\* validation and been answered 200
C15_Witness ==
    /\ Answered(RiskEndpoint)
    /\ TypeValid(request)
    /\ request.data.divida_total < 0
    /\ request.data.faturamento_anual = 0
    /\ response.status = 200

-----------------------------------------------------------------------------
(* C18 *)

EmpresaEndpoint == "/qi-tech/empresa/score"

PessoaEndpoint == "/qi-tech/pessoa/score"

\* C18: /qi-tech/empresa/score answers 400 "CNPJ deve ter 14 dígitos" to
\* every cnpj that is empty or whose length is not 14, and
\* /qi-tech/pessoa/score answers 400 "CPF deve ter 11 dígitos" to every cpf
\* that is empty or whose length is not 11; the provider is not called for
\* such a request.
C18_WrongLengthRejected ==
    /\ (/\ request.endpoint = EmpresaEndpoint
        /\ (request.cnpj = <<>> \/ Len(request.cnpj) # 14)) =>
           /\ qi_tech_calls = <<>>
           /\ random_state = 0
           /\ response # Pending =>
                response = [status |-> 400, detail |-> "CNPJ deve ter 14 dígitos"]
    /\ (/\ request.endpoint = PessoaEndpoint
        /\ (request.cpf = <<>> \/ Len(request.cpf) # 11)) =>
           /\ qi_tech_calls = <<>>
           /\ random_state = 0
           /\ response # Pending =>
                response = [status |-> 400, detail |-> "CPF deve ter 11 dígitos"]

\* a cnpj of 13 characters has been answered 400
C18_Witness ==
    /\ request.endpoint = EmpresaEndpoint
    /\ Len(request.cnpj) = 13
    /\ response # Pending
    /\ response.status = 400
    /\ qi_tech_calls = <<>>

-----------------------------------------------------------------------------
(* C19 *)

Bands == {"A", "B", "C", "D"}

\* C19: for every identifier of the accepted length (14 characters for a
\* cnpj, 11 for a cpf), in the mocked table or not, the provider is called
\* once and what it returns, which the endpoint answers with status 200,
\* has an integer score within 0..1000 and a band among A, B, C and D,
\* whatever the module random yields.
C19_ProviderRange ==
    /\ (/\ request.endpoint = EmpresaEndpoint
        /\ Len(request.cnpj) = 14
        /\ response # Pending) =>
           /\ response.status = 200
           /\ response.score \in 0..1000
           /\ response.faixa_score \in Bands
           /\ Len(qi_tech_calls) = 1
    /\ (/\ request.endpoint = PessoaEndpoint
        /\ Len(request.cpf) = 11
        /\ response # Pending) =>
           /\ response.status = 200
           /\ response.score \in 0..1000
           /\ response.faixa_score \in Bands
           /\ Len(qi_tech_calls) = 1

\* a cpf that is not in the table has been answered with the highest score
\* the generator yields, 950
C19_Witness ==
    /\ request.endpoint = PessoaEndpoint
    /\ Len(request.cpf) = 11
    /\ request.cpf \notin DOMAIN pessoas_mock
    /\ response # Pending
    /\ response.status = 200
    /\ response.score = 950
    /\ response.faixa_score = "A"
    /\ random_state > 0

-----------------------------------------------------------------------------
(* C12 *)

\* the exchanges completed so far, the current one included
Exchanges ==
    IF response = Pending THEN history
    ELSE Append(history, [request |-> request, response |-> response])

\* C12: whenever /calculate-full-score has answered two requests with the
\* same inputs, the two answers have the same score, grade and rate,
\* whatever requests were answered before or between them -- other
\* scoring requests, and lookups of the provider that draw from random.
C12_FullScoreDeterministic ==
    \A i, j \in DOMAIN Exchanges :
        (/\ Exchanges[i].request.endpoint = FullEndpoint
         /\ Exchanges[j].request = Exchanges[i].request) =>
            /\ Exchanges[j].response.score = Exchanges[i].response.score
            /\ Exchanges[j].response.classificacao = Exchanges[i].response.classificacao
            /\ Exchanges[j].response.taxa_juros_anual =
                   Exchanges[i].response.taxa_juros_anual

\* the literal full request answered, then a lookup that drew from random,
\* then the same full request answered again
C12_Witness ==
    /\ Len(history) = 2
    /\ history[1].request.endpoint = FullEndpoint
    /\ history[1].request.data = Literal
    /\ history[2].request.endpoint = EmpresaEndpoint
    /\ random_state > 0
    /\ request = history[1].request
    /\ response # Pending
    /\ response.score = 780 * ScoreUnit

-----------------------------------------------------------------------------
(* C16 *)

\* what an invocation returns when nothing else runs
Alone(invocation) ==
    IF invocation.function = "calculate_risk_score"
    THEN LET r == calculate_risk_score(invocation.args, float_tie_up)
         IN  IF r.raised THEN [raised |-> TRUE]
             ELSE [score |-> r.score, classificacao |-> r.classificacao]
    ELSE LET t == calcular_taxa_juros_anual(invocation.args.risco_final,
                                            invocation.args.prazo_meses,
                                            invocation.args.valor_solicitado)
         IN  [taxa_final_anual |-> t.taxa_final_anual]

Finished(c) == invocations[c].pc \in {"returned", "raised"}

SameAsAlone ==
    \A c \in Callers : Finished(c) => invocations[c].result = Alone(invocations[c])

\* a step changes the locals of the invocation that takes it and of no
\* other, and leaves the state outside the invocations alone
Private ==
    /\ \A c \in Callers : frames'[c] # frames[c] => invocations'[c] # invocations[c]
    /\ UNCHANGED <<random_state, qi_tech_calls, risk_calls, rate_calls>>

\* C16: with several callers invoking the two functions concurrently, under
\* every interleaving of their blocks each caller gets exactly the result
\* the same invocation gives when it runs alone, and no invocation writes
\* state that another one reads: a step touches the frame of its own
\* invocation only.
C16_IsolatedInvocations == []SameAsAlone /\ [][Private]_vars

\* caller 1 has returned while caller 2, invoking the same function on
\* other arguments, is between two blocks of its body
C16_Witness ==
    /\ invocations[1].pc = "returned"
    /\ invocations[2].pc = "normalised"
    /\ invocations[1].function = invocations[2].function
    /\ invocations[1].args # invocations[2].args
    /\ frames[1] # frames[2]
    /\ invocations[1].result = Alone(invocations[1])

-----------------------------------------------------------------------------
(* C21 *)

\* half a score point, in 1/PointUnit
HalfPoint == PointUnit \div 2

\* C21: the final score is a whole multiple of 0.5 whatever the integer
\* bureau score, so rounding it to two decimals returns it unchanged; the
\* grade, computed on the unrounded score, is the grade of the ladder on
\* the returned score; and /calculate-full-score prices exactly the
\* unrounded score.
C21_RoundingIsIdentity ==
    (Scored /\ response.status = 200) =>
        /\ risk_calls[1].soma % HalfPoint = 0
        /\ risk_calls[1].risco_final % HalfPoint = 0
        /\ risk_calls[1].score * (PointUnit \div ScoreUnit) = risk_calls[1].risco_final
        /\ response.score * (PointUnit \div ScoreUnit) = risk_calls[1].risco_final
        /\ response.classificacao = GradeTable(response.score)
        /\ Answered(FullEndpoint) =>
             /\ Len(rate_calls) = 1
             /\ rate_calls[1].risco_final * (PointUnit \div ScoreUnit) =
                    risk_calls[1].risco_final

\* an odd bureau score has been scored: the final score ends in .5
C21_Witness ==
    /\ Scored
    /\ request.data.cnpj_score_api % 2 = 1
    /\ risk_calls[1].risco_final % PointUnit = HalfPoint
    /\ response.score % ScoreUnit = ScoreUnit \div 2

-----------------------------------------------------------------------------
(* C22 *)

\* the same indicators with one denominator set to zero
ZeroDenominator(d, denominator) ==
    calculate_risk_score([d EXCEPT ![denominator] = 0], float_tie_up)

\* C22: the value 0 of an undefined ratio is below every bucket of a
\* defined one (at least 100), for leverage, liquidity and concentration;
\* so a request with a positive denominator never scores less than the
\* same request with that denominator at zero -- also when the debt is
\* zero, where the zero revenue gives leverage 0 and not 1000.
C22_PositiveDenominatorNeverLowers ==
    Answered(RiskEndpoint) =>
        LET d == request.data
            c == risk_calls[1]
        IN  /\ d.faturamento_anual > 0 =>
                 /\ ZeroDenominator(d, "faturamento_anual").risco_endividamento = 0
                 /\ c.risco_endividamento >= 100
                 /\ ZeroDenominator(d, "faturamento_anual").score <= response.score
            /\ d.faturamento_medio_mensal > 0 =>
                 /\ ZeroDenominator(d, "faturamento_medio_mensal").risco_liquidez = 0
                 /\ c.risco_liquidez >= 100
                 /\ ZeroDenominator(d, "faturamento_medio_mensal").score
                        <= response.score
            /\ d.faturamento_total_periodo > 0 =>
                 /\ ZeroDenominator(d, "faturamento_total_periodo").risco_concentracao = 0
                 /\ c.risco_concentracao >= 100
                 /\ ZeroDenominator(d, "faturamento_total_periodo").score
                        <= response.score

\* a company without debt and with a positive revenue has leverage 1000
\* and scores strictly more than with a zero revenue, where its leverage
\* is 0
C22_Witness ==
    /\ Answered(RiskEndpoint)
    /\ request.data.divida_total = 0
    /\ request.data.faturamento_anual > 0
    /\ risk_calls[1].risco_endividamento = 1000
    /\ ZeroDenominator(request.data, "faturamento_anual").risco_endividamento = 0
    /\ ZeroDenominator(request.data, "faturamento_anual").score < response.score

-----------------------------------------------------------------------------
(* C23 *)

\* the bureau scores explored
BureauScores == {d.cnpj_score_api : d \in RiskInputs}

\* the rate the pricer gives
Rate(final_score, term, amount) ==
    calcular_taxa_juros_anual(final_score, term, amount).taxa_final_anual

\* the final score never falls when the bureau score rises, the other
\* indicators fixed
ScoreMonotoneInBureau ==
    Answered(RiskEndpoint) =>
        \A b \in BureauScores :
            b <= request.data.cnpj_score_api =>
                calculate_risk_score([request.data EXCEPT !.cnpj_score_api = b],
                                     float_tie_up).score <= response.score

\* the rate never rises with the final score and never falls with the term
\* or with the amount
RateMonotone ==
    Answered(InterestEndpoint) =>
        LET c == rate_calls[1]
        IN  /\ \A r \in RiscoFinalValues :
                 r <= c.risco_final =>
                     Rate(r, c.prazo_meses, c.valor_solicitado) >= c.taxa_final_anual
            /\ \A p \in PrazoValues :
                 p <= c.prazo_meses =>
                     Rate(c.risco_final, p, c.valor_solicitado) <= c.taxa_final_anual
            /\ \A v \in ValorValues :
                 v <= c.valor_solicitado =>
                     Rate(c.risco_final, c.prazo_meses, v) <= c.taxa_final_anual

\* between 0.12 and 0.48 for a final score within 0..1000, the two ends
\* reached where the claim says
RateBounds ==
    Answered(InterestEndpoint) =>
        LET c == rate_calls[1]
        IN  (0 <= c.risco_final /\ c.risco_final <= 1000 * ScoreUnit) =>
                /\ Percent(12) <= c.taxa_final_anual
                /\ c.taxa_final_anual <= Percent(48)
                /\ (/\ c.risco_final = 1000 * ScoreUnit
                    /\ c.prazo_meses <= 6
                    /\ c.valor_solicitado < 50000) => c.taxa_final_anual = Percent(12)
                /\ (/\ c.risco_final = 0
                    /\ c.prazo_meses > 18
                    /\ c.valor_solicitado >= 300000) => c.taxa_final_anual = Percent(48)

\* C23: the other inputs fixed, the final score is non-decreasing in the
\* bureau score; the annual rate is non-increasing in the final score and
\* non-decreasing in the term and in the amount; and for a final score
\* within 0..1000 the rate lies between 0.12 (score 1000, term at most 6,
\* amount below 50000) and 0.48 (score 0, term above 18, amount at least
\* 300000).
C23_Monotone == ScoreMonotoneInBureau /\ RateMonotone /\ RateBounds

\* the request at the upper end of the rate -- score 0, a term above 18
\* months, an amount of at least 300000 -- priced 0.48, more than the same
\* request at a term of 18 months
C23_Witness ==
    /\ Answered(InterestEndpoint)
    /\ request.risco_final = 0
    /\ request.prazo_meses > 18
    /\ request.valor_solicitado >= 300000
    /\ rate_calls[1].taxa_final_anual = Percent(48)
    /\ Rate(0, 18, request.valor_solicitado) < rate_calls[1].taxa_final_anual


-----------------------------------------------------------------------------
(* RiskScorePredictor: the life of is_trained *)

\* the step is a call of the named method (every method records itself in
\* returned, so a step that changes the state was taken by the method that
\* returned names afterwards)
Called(method) == returned'.call = method

BecomesTrained == ~predictor.is_trained /\ predictor'.is_trained

\* predict and save_model raise the ValueError of an untrained model
\* whenever is_trained is false
UntrainedRaises ==
    [][~predictor.is_trained /\ (Called("predict") \/ Called("save_model"))
           => returned'.raised = NotTrained]_vars

\* is_trained is false after construction
UntrainedAtFirst == [](returned.call = "__init__" => ~predictor.is_trained)

\* is_trained turns true only in a train that returns or in a load_model
\* that returns True from a file storing is_trained = True
TrainedOnlyBy ==
    [][BecomesTrained =>
          \/ Called("train") /\ returned'.raised = ""
          \/ /\ Called("load_model")
             /\ returned'.result
             /\ trained_models[returned'.filepath].is_trained]_vars

\* a load_model that fails returns False, raises nothing and does not turn
\* is_trained true
FailedLoadLeavesUntrained ==
    [][Called("load_model") /\ ~returned'.result
           => returned'.raised = "" /\ ~BecomesTrained]_vars

\* C24: over any sequence of train, load_model, predict and save_model
\* calls, predict and save_model raise ValueError whenever is_trained is
\* false; is_trained is false initially and becomes true only through a
\* train that completes or a load_model that returns True with a stored
\* is_trained of true; a load_model that fails returns False instead of
\* raising and never sets is_trained to true.
C24_IsTrainedLifecycle ==
    /\ UntrainedRaises
    /\ UntrainedAtFirst
    /\ TrainedOnlyBy
    /\ FailedLoadLeavesUntrained

\* a load_model that returned False has left is_trained true on an object
\* that was never trained: the file holds is_trained = True and lacks
\* feature_columns
C24_Witness ==
    /\ returned.call = "load_model"
    /\ ~returned.result
    /\ predictor.is_trained
    /\ predictor.pipeline = "fitted"
    /\ predictor.feature_columns = feature_columns
    /\ LET file == trained_models[returned.filepath]
       IN  /\ file.is_trained
           /\ "feature_columns" \notin file.keys


-----------------------------------------------------------------------------
(* RiskScorePredictor: the ladder of predict *)

Predicted == returned.call = "predict" /\ returned.raised = ""

\* C25: the grade predict assigns to a predicted score is the grade the
\* ladder of calculate_risk_score assigns to the same value (>800 A, >600 B,
\* >400 C, >200 D, otherwise automatically_reproved), for every value a
\* pipeline may predict, the thresholds 800, 600, 400 and 200 included.
C25_SameLadder ==
    Predicted =>
        /\ returned.classificacao = classificacao(returned.prediction)
        /\ \A prediction \in Predictions :
               predict_classificacao(prediction) = classificacao(prediction)

\* predict has returned for a prediction of exactly 800, graded B by both
\* ladders while the value next above it is graded A
C25_Witness ==
    /\ Predicted
    /\ returned.prediction = 800 * PointUnit
    /\ returned.classificacao = "B"
    /\ classificacao(returned.prediction) = "B"
    /\ predict_classificacao(returned.prediction + 1) = "A"
    /\ \A t \in {200, 400, 600, 800} : t * PointUnit \in Predictions


-----------------------------------------------------------------------------
(* GET /qi-tech/demo *)

DemoAnswered == request.endpoint = "/qi-tech/demo" /\ response # Pending

====
